---- MODULE Spec2Model ----
(***************************************************************************)
(* Model of the hybrid autopilot orchestrator                              *)
(* (src/suno_mastering_agent/src/agents/autopilot.py): AutopilotAgent.run, *)
(* its checkpoint store, its retry loop, its pause/resume channel and its  *)
(* event log.  One step of the model is one file operation, one external   *)
(* action or one suspension point of the coroutine, so that a process      *)
(* crash can be placed between any two of them.                            *)
(***************************************************************************)
EXTENDS Integers, Sequences, FiniteSets, TLC

VARIABLES
    cfg,          \* AutopilotConfig of the run
    resume,       \* config.resume of the current process
    pc,           \* position of the run coroutine
    ret,          \* where run continues after the write of a save completes
    state,        \* AutopilotState held in memory (PyNone before it exists)
    planner,      \* self.planner: "template" | "dspy"
    attempt,      \* loop variable of _run_step_with_retries
    msg,          \* message returned by the last failed step
    rows,         \* self.rows, the summary table
    ckpt,         \* content of config.checkpoint_file
    events,       \* content of config.event_log (one record per line)
    resume_flag,  \* config.resume_file exists
    visited,      \* history: <<song_index, phase>> blocks entered by this process
    loadedFrom,   \* history: the kind of checkpoint file this process found and where it starts
    crashState,   \* history: song_index and phase in memory when the previous process ended
    crashes,      \* history: number of crashes so far
    captchas,     \* history: number of blocking-condition failures so far
    create_fails, \* history: ordinary failed attempts of the create step in progress
    summary,      \* the table printed by show_summary (PyNone while it was not called)
    gather,       \* build_plan: the planner invocations in flight (PyNone outside build_plan)
    artifacts,    \* content of config.phase2_artifact_log (one record per line)
    stop_requested, \* the operator has asked the run to stop
    results,      \* history: the track results of the last master_and_export call blocked by a CAPTCHA
    auto          \* AutoCreateAgent and its run: config (with the length of specs), pc,
                  \* spec_idx, attempt, created, self.attempts, self.successes,
                  \* self.failures, log (content of config.log_file) and
                  \* resume_flag (config.resume_file exists)

vars == <<cfg, resume, pc, ret, state, planner, attempt, msg, rows, ckpt,
          events, resume_flag, visited, loadedFrom, crashState, crashes, captchas,
          create_fails, summary, gather, artifacts, stop_requested, results, auto>>

----------------------------------------------------------------------------
(* Bounds of the model *)

MaxCount == 2
MaxRetries == 1
MaxCrashes == 1
MaxCaptchas == 1
MaxCandidates == 2
MaxSpecs == 2
MaxSongs == 2
MaxAttempts == 4

----------------------------------------------------------------------------
(* Python values *)

PyNone == [py |-> "None"]
PyStr(s) == [py |-> "str", v |-> s]

MusicTypes == {"edm", "jazz"}

\* str.title() on the intents and the imagery of the model
TitleCase(text) ==
    CASE text = "edm" -> "Edm"
      [] text = "jazz" -> "Jazz"
      [] text = "strobe lights" -> "Strobe Lights"
      [] text = "laser beams" -> "Laser Beams"
      [] text = "night sky" -> "Night Sky"
      [] text = "echo" -> "Echo"

\* _slug(music_type).replace("_", "") contains a key of GENRE_PRESETS
GENRE_PRESETS ==
    [edm |-> [styles |-> "EDM, festival energy, heavy drops, sidechain pumping, bright synths",
              profile |-> "bass_heavy", weirdness |-> 45, influence |-> 80,
              imagery |-> <<"strobe lights", "crowd jump", "bassline", "laser beams">>]]

_pick_preset(music_type) ==
    IF music_type \in DOMAIN GENRE_PRESETS
    THEN GENRE_PRESETS[music_type]
    ELSE [styles |-> music_type \o ", modern production, emotionally engaging",
          profile |-> "radio_ready", weirdness |-> 40, influence |-> 70,
          imagery |-> <<"night sky", "heartbeat", "motion", "echo">>]

\* the orders random.sample(preset["imagery"], k=3) is drawn from in the model
ImagerySamples == {<<1, 2, 3>>, <<4, 2, 1>>}

\* SpecPlanner.generate: the spec dict and the profile
SpecPlannerGenerate(music_type, index, sample) ==
    LET preset == _pick_preset(music_type)
        images == [i \in 1..3 |-> preset.imagery[sample[i]]]
    IN  [spec |-> [lyrics |-> "[Verse 1]\n"
                              \o TitleCase(images[1])
                              \o " in the distance, we don't look back tonight\n"
                              \o "We turn the pressure into motion, turn the silence into light\n\n"
                              \o "[Chorus]\n"
                              \o "This is our " \o music_type \o " moment, loud and clear\n"
                              \o "We rise together, no fear\n"
                              \o "From " \o images[2] \o " to " \o images[3]
                              \o ", we keep it true\n"
                              \o "One more song to break through\n\n"
                              \o "[Outro]\n"
                              \o "Keep it moving, keep it true.",
                   styles |-> preset.styles,
                   title |-> TitleCase(music_type) \o " Session " \o ToString(index + 1),
                   weirdness |-> preset.weirdness,
                   style_influence |-> preset.influence],
         profile |-> preset.profile]

\* AutopilotState()
FreshState ==
    [song_index |-> 0, phase |-> "plan", profile |-> "radio_ready",
     spec |-> PyNone, last_error |-> PyNone]

PhaseRank(phase) ==
    CASE phase = "plan" -> 0
      [] phase = "create" -> 1
      [] phase = "wait" -> 2
      [] phase = "master_export" -> 3
      [] OTHER -> 4

PipelinePhases == {"plan", "create", "wait", "master_export"}

----------------------------------------------------------------------------
(* Checkpoint store: json.dumps / json.loads of the payload *)

JNull == [j |-> "null"]
JNum(n) == [j |-> "number", v |-> n]
JStr(s) == [j |-> "string", v |-> s]
JObj(d) == [j |-> "object", v |-> d]

\* json.dumps of an Optional[str]
JOptStr(x) == IF x = PyNone THEN JNull ELSE JStr(x.v)

\* json.dumps of state.spec (Optional[dict])
JOptSpec(x) ==
    IF x = PyNone THEN JNull
    ELSE JObj([lyrics |-> JStr(x.lyrics), styles |-> JStr(x.styles),
               title |-> JStr(x.title), weirdness |-> JNum(x.weirdness),
               style_influence |-> JNum(x.style_influence)])

\* json.loads of one value back to Python
PyOfJson(x) ==
    CASE x.j = "null" -> PyNone
      [] x.j = "string" -> PyStr(x.v)
      [] x.j = "number" -> [py |-> "int", v |-> x.v]
      [] x.j = "object" ->
            [lyrics |-> x.v.lyrics.v, styles |-> x.v.styles.v, title |-> x.v.title.v,
             weirdness |-> x.v.weirdness.v, style_influence |-> x.v.style_influence.v]

\* the file does not exist / holds a truncated or unparseable text / holds a JSON object
Absent == [file |-> "absent"]
Partial == [file |-> "partial"]
Doc(payload) == [file |-> "json", payload |-> payload]

\* the payload _save_checkpoint builds
CheckpointPayload(config, s) ==
    [music_type |-> JStr(config.music_type),
     count |-> JNum(config.count),
     wait_generation |-> JNum(config.wait_generation),
     wait_between |-> JNum(config.wait_between),
     export_type |-> JStr(config.export_type),
     song_index |-> JNum(s.song_index),
     phase |-> JStr(s.phase),
     profile |-> JStr(s.profile),
     spec |-> JOptSpec(s.spec),
     last_error |-> JOptStr(s.last_error)]

\* write_text: the file once the write has completed
_save_checkpoint(config, s) == Doc(CheckpointPayload(config, s))

\* payload.get(key, default)
PayloadGet(payload, key, default) ==
    IF key \in DOMAIN payload THEN payload[key] ELSE default

\* _load_checkpoint without the test of the stored music_type
LoadCheckpoint_AnyIntent(config, file) ==
    IF file = Absent \/ file = Partial THEN PyNone
    ELSE LET payload == file.payload
         IN  [song_index |-> PayloadGet(payload, "song_index", JNum(0)).v,
              phase |-> PayloadGet(payload, "phase", JStr("plan")).v,
              profile |-> PayloadGet(payload, "profile", JStr("radio_ready")).v,
              spec |-> PyOfJson(PayloadGet(payload, "spec", JNull)),
              last_error |-> PyOfJson(PayloadGet(payload, "last_error", JNull))]

\* _load_checkpoint that leaves last_error at the dataclass default
LoadCheckpoint_NoLastError(config, file) ==
    IF file = Absent \/ file = Partial THEN PyNone
    ELSE LET payload == file.payload
         IN  IF PayloadGet(payload, "music_type", JNull) # JStr(config.music_type)
             THEN PyNone
             ELSE [song_index |-> PayloadGet(payload, "song_index", JNum(0)).v,
                   phase |-> PayloadGet(payload, "phase", JStr("plan")).v,
                   profile |-> PayloadGet(payload, "profile", JStr("radio_ready")).v,
                   spec |-> PyOfJson(PayloadGet(payload, "spec", JNull)),
                   last_error |-> PyNone]

\* _load_checkpoint: Optional[AutopilotState]
_load_checkpoint(config, file) ==
    IF file = Absent THEN PyNone
    ELSE IF file = Partial THEN PyNone
    ELSE LET payload == file.payload
             song_index == PayloadGet(payload, "song_index", JNum(0))
             phase == PayloadGet(payload, "phase", JStr("plan"))
             profile == PayloadGet(payload, "profile", JStr("radio_ready"))
         IN  IF PayloadGet(payload, "music_type", JNull) # JStr(config.music_type)
             THEN PyNone
             ELSE IF song_index.j # "number"
             THEN PyNone
             ELSE [song_index |-> song_index.v,
                   phase |-> phase.v,
                   profile |-> profile.v,
                   spec |-> PyOfJson(PayloadGet(payload, "spec", JNull)),
                   last_error |-> PyOfJson(PayloadGet(payload, "last_error", JNull))]

\* what the checkpoint file is to a run with this configuration
FileKind(config, file) ==
    CASE file = Absent -> "absent"
      [] file = Partial -> "unparseable"
      [] file.payload.music_type # JStr(config.music_type) -> "intent_mismatch"
      [] OTHER -> "usable"

----------------------------------------------------------------------------
(* Messages of the external executor *)

\* CreateSkill.create_song failure messages (src/skills/create.py)
CreateFailMsgs == {"Create button not found", "Create button not found after CAPTCHA"}
CreateOkMsg == "Create clicked - song generation started"

\* msg.lower()
Lower(m) ==
    CASE m = "Create button not found" -> "create button not found"
      [] m = "Create button not found after CAPTCHA" -> "create button not found after captcha"
      [] m = "CAPTCHA challenge blocked the studio" -> "captcha challenge blocked the studio"
      [] OTHER -> m

\* "captcha" in msg.lower()
HasCaptcha(m) ==
    Lower(m) \in {"create button not found after captcha", "captcha challenge blocked the studio"}

\* _step_master_export messages
MasterOkMsg(profile, export_type) == "mastered with " \o profile \o ", exported " \o export_type
MasterFailMsg == "mastering returned no successful tracks"

----------------------------------------------------------------------------
(* Initial states *)

Configs ==
    [music_type : {"edm"},
     count : 1..MaxCount,
     wait_generation : {90},
     wait_between : {20},
     export_type : {"full"},
     step_retries : 0..MaxRetries,
     continue_on_error : BOOLEAN,
     pause_on_captcha : BOOLEAN,
     planner : {"template", "dspy", "auto"},
     phase2 : {FALSE},
     candidate_count : {3}]

\* states an earlier run of the program under intent mt can have left in
\* the checkpoint file
StoredStates(mt) ==
    LET planned(i) == SpecPlannerGenerate(mt, i, <<1, 2, 3>>)
        all == { [song_index |-> i, phase |-> ph,
                  profile |-> IF sp THEN planned(i).profile ELSE "radio_ready",
                  spec |-> IF sp THEN planned(IF ph = "plan" THEN i - 1 ELSE i).spec ELSE PyNone,
                  last_error |-> le] :
                   i \in 0..MaxCount, ph \in PipelinePhases, sp \in BOOLEAN,
                   le \in {PyNone, PyStr("Create button not found after CAPTCHA"),
                           PyStr(MasterFailMsg)} }
    IN  { t \in all :
            /\ t.phase # "plan" => t.spec # PyNone
            /\ t.phase \in {"plan", "wait"} => t.last_error = PyNone
            /\ t.phase = "create" => t.last_error # PyStr(MasterFailMsg)
            /\ t.phase = "master_export" => t.last_error \in {PyNone, PyStr(MasterFailMsg)}
            /\ t.phase = "plan" /\ t.spec # PyNone => t.song_index > 0 }

InitialFiles(config) ==
    {Absent, Partial} \cup
    UNION { { _save_checkpoint([config EXCEPT !.music_type = mt], s) : s \in StoredStates(mt) } :
            mt \in MusicTypes }

\* a new AutoCreateAgent before run, for the queue of config
NewAgent(config, at) ==
    [config |-> config, pc |-> at, spec_idx |-> 0, attempt |-> 0, created |-> FALSE,
     attempts |-> 0, successes |-> 0, failures |-> 0, log |-> <<>>, resume_flag |-> FALSE]

\* AutoCreateAgent.run is not running
AutoIdle == auto = NewAgent(PyNone, "idle")

Init ==
    /\ cfg \in Configs
    /\ resume \in BOOLEAN
    /\ pc = "start"
    /\ ret = "none"
    /\ state = PyNone
    /\ planner = "template"
    /\ attempt = 0
    /\ msg = ""
    /\ rows = <<>>
    /\ ckpt \in InitialFiles(cfg)
    /\ events = <<>>
    /\ resume_flag = FALSE
    /\ visited = <<>>
    /\ loadedFrom = PyNone
    /\ crashState = PyNone
    /\ crashes = 0
    /\ captchas = 0
    /\ create_fails = 0
    /\ summary = PyNone
    /\ gather = PyNone
    /\ artifacts = <<>>
    /\ stop_requested = FALSE
    /\ results = <<>>
    /\ AutoIdle

----------------------------------------------------------------------------
(* AutopilotAgent.run *)

\* the variables that only Crash, Restart and the environment change
env == <<cfg, resume, resume_flag, loadedFrom, crashState, crashes>>

\* an assignment to the state followed by _save_checkpoint: the file is
\* opened for writing (truncated) here and written by SaveWrite
BeginSave(s, next) ==
    /\ state' = s
    /\ ckpt' = Partial
    /\ pc' = "save"
    /\ ret' = next

\* write_text completes
SaveWrite ==
    /\ pc = "save"
    /\ ckpt' = _save_checkpoint(cfg, state)
    /\ pc' = ret
    /\ ret' = "none"
    /\ UNCHANGED <<state, planner, attempt, msg, rows, events, visited, captchas, create_fails, summary>>
    /\ UNCHANGED env
    /\ UNCHANGED <<gather, artifacts, stop_requested, results>>
    /\ UNCHANGED auto

\* _select_planner: template, or DSPy ready
SelectPlannerOk ==
    /\ pc = "start"
    /\ \E ready \in BOOLEAN :
          /\ cfg.planner = "dspy" => ready
          /\ planner' = IF cfg.planner = "template" \/ ~ready THEN "template" ELSE "dspy"
    /\ pc' = "load"
    /\ UNCHANGED <<ret, state, attempt, msg, rows, ckpt, events, visited, captchas, create_fails, summary>>
    /\ UNCHANGED env
    /\ UNCHANGED <<gather, artifacts, stop_requested, results>>
    /\ UNCHANGED auto

\* _select_planner: planner == "dspy" and DSPy is not ready
SelectPlannerRaise ==
    /\ pc = "start"
    /\ cfg.planner = "dspy"
    /\ pc' = "raised"
    /\ UNCHANGED <<ret, state, planner, attempt, msg, rows, ckpt, events, visited, captchas, create_fails, summary>>
    /\ UNCHANGED env
    /\ UNCHANGED <<gather, artifacts, stop_requested, results>>
    /\ UNCHANGED auto

\* state = self._load_checkpoint(config) if config.resume else None: a state was loaded
LoadResume ==
    /\ pc = "load"
    /\ resume
    /\ _load_checkpoint(cfg, ckpt) # PyNone
    /\ state' = _load_checkpoint(cfg, ckpt)
    /\ loadedFrom' = [kind |-> FileKind(cfg, ckpt), song_index |-> state'.song_index,
                      phase |-> state'.phase]
    /\ pc' = "loop"
    /\ UNCHANGED <<ret, planner, attempt, msg, rows, ckpt, events, visited, captchas, create_fails, summary>>
    /\ UNCHANGED <<cfg, resume, resume_flag, crashState, crashes>>
    /\ UNCHANGED <<gather, artifacts, stop_requested, results>>
    /\ UNCHANGED auto

\* LoadFresh without the call of _save_checkpoint
LoadFresh_NoSave ==
    /\ pc = "load"
    /\ (resume => _load_checkpoint(cfg, ckpt) = PyNone)
    /\ loadedFrom' = [kind |-> FileKind(cfg, ckpt), song_index |-> FreshState.song_index,
                      phase |-> FreshState.phase]
    /\ state' = FreshState
    /\ pc' = "loop"
    /\ UNCHANGED <<ret, ckpt, planner, attempt, msg, rows, events, visited, captchas, create_fails, summary>>
    /\ UNCHANGED <<cfg, resume, resume_flag, crashState, crashes>>
    /\ UNCHANGED <<gather, artifacts, stop_requested, results>>
    /\ UNCHANGED auto

\* no state was loaded: state = AutopilotState(); self._save_checkpoint(config, state)
LoadFresh ==
    /\ pc = "load"
    /\ (resume => _load_checkpoint(cfg, ckpt) = PyNone)
    /\ loadedFrom' = [kind |-> FileKind(cfg, ckpt), song_index |-> FreshState.song_index,
                      phase |-> FreshState.phase]
    /\ BeginSave(FreshState, "loop")
    /\ UNCHANGED <<planner, attempt, msg, rows, events, visited, captchas, create_fails, summary>>
    /\ UNCHANGED <<cfg, resume, resume_flag, crashState, crashes>>
    /\ UNCHANGED <<gather, artifacts, stop_requested, results>>
    /\ UNCHANGED auto

\* LoopTop with the wait block skipped
LoopTop_SkipWait ==
    /\ pc = "loop"
    /\ pc' = CASE state.song_index >= cfg.count -> "clear"
               [] state.phase = "plan" -> "plan"
               [] state.spec = PyNone -> "raised"
               [] state.phase = "create" -> "create"
               [] state.phase \in {"wait", "master_export"} -> "master_export"
               [] OTHER -> "loop"
    /\ UNCHANGED <<ret, state, planner, attempt, msg, rows, ckpt, events, visited, captchas, create_fails, summary>>
    /\ UNCHANGED env
    /\ UNCHANGED <<gather, artifacts, stop_requested, results>>
    /\ UNCHANGED auto

\* top of the while loop and the chain of phase tests of one iteration
LoopTop ==
    /\ pc = "loop"
    /\ pc' = CASE state.song_index >= cfg.count -> "clear"
               [] state.phase = "plan" -> "plan"
               [] state.spec = PyNone -> "raised"
               [] state.phase \in {"create", "wait", "master_export"} -> state.phase
               [] OTHER -> "loop"
    /\ UNCHANGED <<ret, state, planner, attempt, msg, rows, ckpt, events, visited, captchas, create_fails, summary>>
    /\ UNCHANGED env
    /\ UNCHANGED <<gather, artifacts, stop_requested, results>>
    /\ UNCHANGED auto

\* the results the external model can return to DspySpecPlanner.generate
DspyResults ==
    { [mastering_profile |-> " Bass_Heavy ", lyrics |-> "neon rain", styles |-> "",
       title |-> "Neon Rain", weirdness |-> 150, style_influence |-> 0] }

\* str(...).strip().lower() on the profiles of the model
StripLower(p) == IF p = " Bass_Heavy " THEN "bass_heavy" ELSE p

MasteringProfiles ==
    {"radio_ready", "warm_vinyl", "bass_heavy", "vocal_focus", "bright_pop", "lo_fi",
     "clarity", "flat"}

Min(a, b) == IF a < b THEN a ELSE b
Max(a, b) == IF a > b THEN a ELSE b

\* max(0, min(100, int(x or default)))
ClampTuning(x, default) == Max(0, Min(100, IF x = 0 THEN default ELSE x))

\* DspySpecPlanner.generate once the external model has answered
DspySpecPlannerGenerate(music_type, index, result) ==
    LET profile_raw == StripLower(result.mastering_profile)
    IN  [spec |-> [lyrics |-> IF result.lyrics = "" THEN music_type \o " instrumental"
                              ELSE result.lyrics,
                   styles |-> IF result.styles = "" THEN music_type ELSE result.styles,
                   title |-> result.title,
                   weirdness |-> ClampTuning(result.weirdness, 40),
                   style_influence |-> ClampTuning(result.style_influence, 70)],
         profile |-> IF profile_raw \in MasteringProfiles THEN profile_raw ELSE "radio_ready"]

\* the plans self.planner.generate(config.music_type, state.song_index) can return
Plans(kind, music_type, index) ==
    IF kind = "template"
    THEN { SpecPlannerGenerate(music_type, index, sample) : sample \in ImagerySamples }
    ELSE { DspySpecPlannerGenerate(music_type, index, result) : result \in DspyResults }

\* the plan block: the planner returned; state.spec, profile, last_error
\* and phase are assigned and the checkpoint is saved
Plan ==
    /\ pc = "plan"
    /\ ~cfg.phase2
    /\ \E plan \in Plans(planner, cfg.music_type, state.song_index) :
          BeginSave([state EXCEPT !.spec = plan.spec, !.profile = plan.profile,
                                  !.last_error = PyNone, !.phase = "create"],
                    "planned_event")
    /\ visited' = Append(visited, <<state.song_index, "plan">>)
    /\ UNCHANGED <<planner, attempt, msg, rows, events, captchas, create_fails, summary>>
    /\ UNCHANGED env
    /\ UNCHANGED <<gather, artifacts, stop_requested, results>>
    /\ UNCHANGED auto

\* PlanRaise that catches the exception and enters the plan block again
PlanRaise_Retry ==
    /\ pc = "plan"
    /\ ~cfg.phase2
    /\ planner = "dspy"
    /\ pc' = "plan"
    /\ visited' = Append(visited, <<state.song_index, "plan">>)
    /\ UNCHANGED <<ret, state, planner, attempt, msg, rows, ckpt, events, captchas, create_fails, summary>>
    /\ UNCHANGED env
    /\ UNCHANGED <<gather, artifacts, stop_requested, results>>
    /\ UNCHANGED auto

\* the plan block: DspySpecPlanner.generate raises and the exception leaves run
PlanRaise ==
    /\ pc = "plan"
    /\ ~cfg.phase2
    /\ planner = "dspy"
    /\ pc' = "raised"
    /\ visited' = Append(visited, <<state.song_index, "plan">>)
    /\ UNCHANGED <<ret, state, planner, attempt, msg, rows, ckpt, events, captchas, create_fails, summary>>
    /\ UNCHANGED env
    /\ UNCHANGED <<gather, artifacts, stop_requested, results>>
    /\ UNCHANGED auto

----------------------------------------------------------------------------
(* Phase2PlannerCoordinator *)

\* Phase2PlannerCoordinator._score_spec, in hundredths
_score_spec(spec) ==
      (IF spec.title # "" /\ Len(spec.title) >= 6 THEN 100 ELSE 0)
    + (IF spec.styles # "" /\ Len(spec.styles) >= 20 /\ Len(spec.styles) <= 180 THEN 150 ELSE 0)
    + (IF spec.lyrics # "" /\ Len(spec.lyrics) >= 120 THEN 200 ELSE 0)
    + (IF spec.weirdness >= 10 /\ spec.weirdness <= 80 THEN 75 ELSE 20)
    + (IF spec.style_influence >= 40 /\ spec.style_influence <= 90 THEN 75 ELSE 20)

\* the answers the external model can give to the invocations of one round
CandidateResults ==
    DspyResults \cup
    { [mastering_profile |-> "warm_vinyl",
       lyrics |-> "[Verse 1]\nNight drive under amber signs, the radio hums low\n"
                  \o "[Chorus]\nWe keep the engine singing where the river lights go\n"
                  \o "[Outro]\nRoll on, roll on.",
       styles |-> "synthwave, warm analog pads, steady pulse",
       title |-> "Night Drive", weirdness |-> 30, style_influence |-> 60],
      [mastering_profile |-> "flat", lyrics |-> "glow", styles |-> "",
       title |-> "Glow Up", weirdness |-> 30, style_influence |-> 95] }

Pending == [task |-> "pending"]
Raised(message) == [task |-> "raised", error |-> message]
Returned(plan) == [task |-> "returned", spec |-> plan.spec, profile |-> plan.profile]

\* the outcomes of asyncio.to_thread(self.planner.generate, music_type, index)
TaskOutcomes(kind, music_type, index) ==
    IF kind = "template"
    THEN { Returned(SpecPlannerGenerate(music_type, index, sample)) : sample \in ImagerySamples }
    ELSE { Returned(DspySpecPlannerGenerate(music_type, index, result)) :
               result \in CandidateResults }
         \cup { Raised("LM call failed") }

\* Candidates with the entries in the order the invocations completed
Candidates_CompletionOrder(g) ==
    [k \in 1..Len(g.results) |->
        LET item == g.results[g.order[k]]
        IN  IF item.task = "raised"
            THEN [candidate |-> k, error |-> item.error, score |-> -100]
            ELSE [candidate |-> k, spec |-> item.spec, profile |-> item.profile,
                  score |-> _score_spec(item.spec)]]

\* build_plan: the candidates list built from the results of asyncio.gather
Candidates(g) ==
    [i \in 1..Len(g.results) |->
        LET item == g.results[i]
        IN  IF item.task = "raised"
            THEN [candidate |-> i, error |-> item.error, score |-> -100]
            ELSE [candidate |-> i, spec |-> item.spec, profile |-> item.profile,
                  score |-> _score_spec(item.spec)]]

\* valid = [c for c in candidates if "spec" in c]
Valid(candidates) == SelectSeq(candidates, LAMBDA c : "spec" \in DOMAIN c)

RECURSIVE PyMaxFrom_LastWins(_, _, _)
\* PyMaxFrom that keeps the last of the items with the greatest score
PyMaxFrom_LastWins(items, k, best) ==
    IF k > Len(items) THEN best
    ELSE PyMaxFrom_LastWins(items, k + 1, IF items[k].score >= best.score THEN items[k] ELSE best)

RECURSIVE PyMaxFrom(_, _, _)
\* max(valid, key=lambda c: c["score"]): the first of the items with the greatest score
PyMaxFrom(items, k, best) ==
    IF k > Len(items) THEN best
    ELSE PyMaxFrom(items, k + 1, IF items[k].score > best.score THEN items[k] ELSE best)

Best(candidates) == PyMaxFrom(Valid(candidates), 2, Valid(candidates)[1])

\* the artifacts list build_plan returns
Phase2Artifacts(music_type, index, candidates) ==
    LET best == Best(candidates)
    IN  << [phase |-> "discover", music_type |-> music_type, index |-> index],
           [phase |-> "design", candidate_count |-> Len(candidates), candidates |-> candidates],
           [phase |-> "decide", selected_candidate |-> best.candidate,
            selected_score |-> best.score, selected_profile |-> best.profile,
            selected_title |-> best.spec.title] >>

\* the plan block with phase2: build_plan starts max(1, candidate_count) invocations
Phase2Begin ==
    /\ pc = "plan"
    /\ cfg.phase2
    /\ gather' = [results |-> [i \in 1..Max(1, cfg.candidate_count) |-> Pending], order |-> <<>>]
    /\ pc' = "gather"
    /\ visited' = Append(visited, <<state.song_index, "plan">>)
    /\ UNCHANGED <<ret, state, planner, attempt, msg, rows, ckpt, events, captchas, create_fails, summary>>
    /\ UNCHANGED env
    /\ UNCHANGED <<artifacts, stop_requested, results>>
    /\ UNCHANGED auto

\* one invocation of planner.generate returns or raises, in a worker thread
Phase2TaskDone ==
    /\ pc = "gather"
    /\ \E i \in DOMAIN gather.results :
          /\ gather.results[i] = Pending
          /\ \E outcome \in TaskOutcomes(planner, cfg.music_type, state.song_index + i - 1) :
                gather' = [results |-> [gather.results EXCEPT ![i] = outcome],
                           order |-> Append(gather.order, i)]
    /\ UNCHANGED <<pc, ret, state, planner, attempt, msg, rows, ckpt, events, visited, captchas, create_fails, summary>>
    /\ UNCHANGED env
    /\ UNCHANGED <<artifacts, stop_requested, results>>
    /\ UNCHANGED auto

\* asyncio.gather returned and no candidate is valid: build_plan raises and
\* the exception leaves run; the artifacts list is dropped with it
Phase2NoViable ==
    /\ pc = "gather"
    /\ \A i \in DOMAIN gather.results : gather.results[i] # Pending
    /\ Valid(Candidates(gather)) = <<>>
    /\ gather' = PyNone
    /\ pc' = "raised"
    /\ UNCHANGED <<ret, state, planner, attempt, msg, rows, ckpt, events, visited, captchas, create_fails, summary>>
    /\ UNCHANGED env
    /\ UNCHANGED <<artifacts, stop_requested, results>>
    /\ UNCHANGED auto

\* asyncio.gather returned with a valid candidate: build_plan returns and
\* _append_phase2_artifacts appends its three records
Phase2Decide ==
    /\ pc = "gather"
    /\ \A i \in DOMAIN gather.results : gather.results[i] # Pending
    /\ Valid(Candidates(gather)) # <<>>
    /\ artifacts' = artifacts \o Phase2Artifacts(cfg.music_type, state.song_index, Candidates(gather))
    /\ pc' = "phase2_plan"
    /\ UNCHANGED <<ret, state, planner, attempt, msg, rows, ckpt, events, visited, captchas, create_fails, summary>>
    /\ UNCHANGED env
    /\ UNCHANGED <<gather, stop_requested, results>>
    /\ UNCHANGED auto

\* Phase2Plan that takes the first valid candidate
Phase2Plan_FirstValid ==
    /\ pc = "phase2_plan"
    /\ LET best == Valid(Candidates(gather))[1]
       IN  BeginSave([state EXCEPT !.spec = best.spec, !.profile = best.profile,
                                   !.last_error = PyNone, !.phase = "create"],
                     "planned_event")
    /\ gather' = PyNone
    /\ UNCHANGED <<planner, attempt, msg, rows, events, visited, captchas, create_fails, summary>>
    /\ UNCHANGED env
    /\ UNCHANGED <<artifacts, stop_requested, results>>
    /\ UNCHANGED auto

\* the plan block after build_plan: the selected spec and profile are
\* assigned with phase = "create" and the checkpoint is saved
Phase2Plan ==
    /\ pc = "phase2_plan"
    /\ LET best == Best(Candidates(gather))
       IN  BeginSave([state EXCEPT !.spec = best.spec, !.profile = best.profile,
                                   !.last_error = PyNone, !.phase = "create"],
                     "planned_event")
    /\ gather' = PyNone
    /\ UNCHANGED <<planner, attempt, msg, rows, events, visited, captchas, create_fails, summary>>
    /\ UNCHANGED env
    /\ UNCHANGED <<artifacts, stop_requested, results>>
    /\ UNCHANGED auto

----------------------------------------------------------------------------
\* _append_event of "planned"; the iteration goes on to the create block
PlannedEvent ==
    /\ pc = "planned_event"
    /\ events' = Append(events, [event |-> "planned", song_index |-> state.song_index,
                                 title |-> state.spec.title, profile |-> state.profile])
    /\ pc' = "create"
    /\ UNCHANGED <<ret, state, planner, attempt, msg, rows, ckpt, visited, captchas, create_fails, summary>>
    /\ UNCHANGED env
    /\ UNCHANGED <<gather, artifacts, stop_requested, results>>
    /\ UNCHANGED auto

\* the create block is entered: _run_step_with_retries starts with attempt 1
CreateBegin ==
    /\ pc = "create"
    /\ attempt' = 1
    /\ pc' = "create_call"
    /\ visited' = Append(visited, <<state.song_index, "create">>)
    /\ UNCHANGED <<ret, state, planner, msg, rows, ckpt, events, captchas, create_fails, summary>>
    /\ UNCHANGED env
    /\ UNCHANGED <<gather, artifacts, stop_requested, results>>
    /\ UNCHANGED auto

\* CreateOk without the call of _save_checkpoint
CreateOk_NoSave ==
    /\ pc = "create_call"
    /\ state' = [state EXCEPT !.phase = "wait", !.last_error = PyNone]
    /\ pc' = "wait"
    /\ msg' = CreateOkMsg
    /\ create_fails' = 0
    /\ UNCHANGED <<ret, ckpt, planner, attempt, rows, events, visited, captchas, summary>>
    /\ UNCHANGED env
    /\ UNCHANGED <<gather, artifacts, stop_requested, results>>
    /\ UNCHANGED auto

\* _step_create succeeds: phase = "wait", last_error = None, save
CreateOk ==
    /\ pc = "create_call"
    /\ BeginSave([state EXCEPT !.phase = "wait", !.last_error = PyNone], "wait")
    /\ msg' = CreateOkMsg
    /\ create_fails' = 0
    /\ UNCHANGED <<planner, attempt, rows, events, visited, captchas, summary>>
    /\ UNCHANGED env
    /\ UNCHANGED <<gather, artifacts, stop_requested, results>>
    /\ UNCHANGED auto

\* _step_create fails and attempt < max_attempts: sleep 2 s, next attempt
CreateRetry ==
    /\ pc = "create_call"
    /\ attempt < cfg.step_retries + 1
    /\ \E m \in CreateFailMsgs :
          /\ HasCaptcha(m) => captchas < MaxCaptchas
          /\ msg' = m
          /\ captchas' = IF HasCaptcha(m) THEN captchas + 1 ELSE captchas
          /\ create_fails' = IF HasCaptcha(m) THEN create_fails ELSE create_fails + 1
    /\ attempt' = attempt + 1
    /\ UNCHANGED <<pc, ret, state, planner, rows, ckpt, events, visited, summary>>
    /\ UNCHANGED env
    /\ UNCHANGED <<gather, artifacts, stop_requested, results>>
    /\ UNCHANGED auto

\* CreateExhausted with max_attempts = step_retries
CreateExhausted_NoExtraAttempt ==
    /\ pc = "create_call"
    /\ attempt >= cfg.step_retries
    /\ \E m \in CreateFailMsgs :
          /\ HasCaptcha(m) => captchas < MaxCaptchas
          /\ msg' = m
          /\ captchas' = IF HasCaptcha(m) THEN captchas + 1 ELSE captchas
          /\ create_fails' = IF HasCaptcha(m) THEN create_fails ELSE create_fails + 1
          /\ rows' = Append(rows, <<state.song_index + 1, state.spec.title, "FAILED_CREATE", m>>)
          /\ BeginSave([state EXCEPT !.last_error = PyStr(m)], "create_failed_event")
    /\ UNCHANGED <<planner, attempt, events, visited, summary>>
    /\ UNCHANGED env
    /\ UNCHANGED <<gather, artifacts, stop_requested, results>>
    /\ UNCHANGED auto

\* _step_create fails on the last attempt: last_error, summary row, save
CreateExhausted ==
    /\ pc = "create_call"
    /\ attempt >= cfg.step_retries + 1
    /\ \E m \in CreateFailMsgs :
          /\ HasCaptcha(m) => captchas < MaxCaptchas
          /\ msg' = m
          /\ captchas' = IF HasCaptcha(m) THEN captchas + 1 ELSE captchas
          /\ create_fails' = IF HasCaptcha(m) THEN create_fails ELSE create_fails + 1
          /\ rows' = Append(rows, <<state.song_index + 1, state.spec.title, "FAILED_CREATE", m>>)
          /\ BeginSave([state EXCEPT !.last_error = PyStr(m)], "create_failed_event")
    /\ UNCHANGED <<planner, attempt, events, visited, summary>>
    /\ UNCHANGED env
    /\ UNCHANGED <<gather, artifacts, stop_requested, results>>
    /\ UNCHANGED auto

\* CreateFailedEvent without the test of continue_on_error
CreateFailedEvent_IgnorePolicy ==
    /\ pc = "create_failed_event"
    /\ events' = Append(events, [event |-> "create_failed", song_index |-> state.song_index,
                                 title |-> state.spec.title, message |-> msg])
    /\ pc' = CASE HasCaptcha(msg) /\ cfg.pause_on_captcha -> "captcha_pause_event"
               [] HasCaptcha(msg) -> "clear"
               [] OTHER -> "abandon"
    /\ UNCHANGED <<ret, state, planner, attempt, msg, rows, ckpt, visited, captchas, create_fails, summary>>
    /\ UNCHANGED env
    /\ UNCHANGED <<gather, artifacts, stop_requested, results>>
    /\ UNCHANGED auto

\* CreateFailedEvent without the test for the blocking-condition marker
CreateFailedEvent_IgnoreCaptcha ==
    /\ pc = "create_failed_event"
    /\ events' = Append(events, [event |-> "create_failed", song_index |-> state.song_index,
                                 title |-> state.spec.title, message |-> msg])
    /\ pc' = CASE ~cfg.continue_on_error -> "clear"
               [] OTHER -> "abandon"
    /\ UNCHANGED <<ret, state, planner, attempt, msg, rows, ckpt, visited, captchas, create_fails, summary>>
    /\ UNCHANGED env
    /\ UNCHANGED <<gather, artifacts, stop_requested, results>>
    /\ UNCHANGED auto

\* CreateFailedEvent that gives the job up on a blocking condition without pause
CreateFailedEvent_CaptchaAdvances ==
    /\ pc = "create_failed_event"
    /\ events' = Append(events, [event |-> "create_failed", song_index |-> state.song_index,
                                 title |-> state.spec.title, message |-> msg])
    /\ pc' = CASE HasCaptcha(msg) /\ cfg.pause_on_captcha -> "captcha_pause_event"
               [] HasCaptcha(msg) -> "abandon"
               [] ~cfg.continue_on_error -> "clear"
               [] OTHER -> "abandon"
    /\ UNCHANGED <<ret, state, planner, attempt, msg, rows, ckpt, visited, captchas, create_fails, summary>>
    /\ UNCHANGED env
    /\ UNCHANGED <<gather, artifacts, stop_requested, results>>
    /\ UNCHANGED auto

\* _append_event of "create_failed", then the tests on the message and the policy
CreateFailedEvent ==
    /\ pc = "create_failed_event"
    /\ events' = Append(events, [event |-> "create_failed", song_index |-> state.song_index,
                                 title |-> state.spec.title, message |-> msg])
    /\ pc' = CASE HasCaptcha(msg) /\ cfg.pause_on_captcha -> "captcha_pause_event"
               [] HasCaptcha(msg) -> "clear"
               [] ~cfg.continue_on_error -> "clear"
               [] OTHER -> "abandon"
    /\ UNCHANGED <<ret, state, planner, attempt, msg, rows, ckpt, visited, captchas, create_fails, summary>>
    /\ UNCHANGED env
    /\ UNCHANGED <<gather, artifacts, stop_requested, results>>
    /\ UNCHANGED auto

\* CreateAbandon that keeps the job and passes it on to the wait phase
CreateAbandon_KeepJob ==
    /\ pc = "abandon"
    /\ BeginSave([state EXCEPT !.phase = "wait"], "loop")
    /\ UNCHANGED <<planner, attempt, msg, rows, events, visited, captchas, summary>>
    /\ create_fails' = 0
    /\ UNCHANGED env
    /\ UNCHANGED <<gather, artifacts, stop_requested, results>>
    /\ UNCHANGED auto

\* create failed and continue_on_error: song_index += 1, phase = "plan", save, continue
CreateAbandon ==
    /\ pc = "abandon"
    /\ BeginSave([state EXCEPT !.song_index = state.song_index + 1, !.phase = "plan"], "loop")
    /\ UNCHANGED <<planner, attempt, msg, rows, events, visited, captchas, summary>>
    /\ create_fails' = 0
    /\ UNCHANGED env
    /\ UNCHANGED <<gather, artifacts, stop_requested, results>>
    /\ UNCHANGED auto

\* WaitForResumeSignal without the test resume.exists()
WaitForResumeSignal_NoExistsTest ==
    /\ pc = "waiting"
    /\ resume_flag' = FALSE
    /\ pc' = "captcha_resume_event"
    /\ UNCHANGED <<ret, state, planner, attempt, msg, rows, ckpt, events, visited, captchas, create_fails, summary>>
    /\ UNCHANGED <<cfg, resume, loadedFrom, crashState, crashes>>
    /\ UNCHANGED <<gather, artifacts, stop_requested, results>>
    /\ UNCHANGED auto

\* _append_event of "captcha_pause"; _wait_for_resume_signal starts
CaptchaPauseEvent ==
    /\ pc = "captcha_pause_event"
    /\ events' = Append(events, [event |-> "captcha_pause", song_index |-> state.song_index,
                                 title |-> state.spec.title])
    /\ pc' = "waiting"
    /\ UNCHANGED <<ret, state, planner, attempt, msg, rows, ckpt, visited, captchas, create_fails, summary>>
    /\ UNCHANGED env
    /\ UNCHANGED <<gather, artifacts, stop_requested, results>>
    /\ UNCHANGED auto

\* _wait_for_resume_signal: a poll finds the flag and unlinks it
WaitForResumeSignal ==
    /\ pc = "waiting"
    /\ resume_flag
    /\ resume_flag' = FALSE
    /\ pc' = "captcha_resume_event"
    /\ UNCHANGED <<ret, state, planner, attempt, msg, rows, ckpt, events, visited, captchas, create_fails, summary>>
    /\ UNCHANGED <<cfg, resume, loadedFrom, crashState, crashes>>
    /\ UNCHANGED <<gather, artifacts, stop_requested, results>>
    /\ UNCHANGED auto

\* _wait_for_resume_signal: a poll finds the flag, unlink raises OSError,
\* which is swallowed, and the function returns with the file still there
WaitForResumeSignalUnlinkFails ==
    /\ pc = "waiting"
    /\ resume_flag
    /\ pc' = "captcha_resume_event"
    /\ UNCHANGED <<ret, state, planner, attempt, msg, rows, ckpt, events, visited, captchas, create_fails, summary>>
    /\ UNCHANGED env
    /\ UNCHANGED <<gather, artifacts, stop_requested, results>>
    /\ UNCHANGED auto

\* the operator runs: touch <resume_file>
TouchResumeFile ==
    /\ ~resume_flag
    /\ pc \in {"waiting"}
    /\ resume_flag' = TRUE
    /\ UNCHANGED <<pc, ret, state, planner, attempt, msg, rows, ckpt, events, visited, captchas, create_fails, summary>>
    /\ UNCHANGED <<cfg, resume, loadedFrom, crashState, crashes>>
    /\ UNCHANGED <<gather, artifacts, stop_requested, results>>
    /\ UNCHANGED auto

\* CaptchaResumeEvent that goes on to the wait block instead of the loop top
CaptchaResumeEvent_NextPhase ==
    /\ pc = "captcha_resume_event"
    /\ events' = Append(events, [event |-> "captcha_resume", song_index |-> state.song_index,
                                 title |-> state.spec.title])
    /\ pc' = "wait"
    /\ UNCHANGED <<ret, state, planner, attempt, msg, rows, ckpt, visited, captchas, create_fails, summary>>
    /\ UNCHANGED env
    /\ UNCHANGED <<gather, artifacts, stop_requested, results>>
    /\ UNCHANGED auto

\* _append_event of "captcha_resume"; continue
CaptchaResumeEvent ==
    /\ pc = "captcha_resume_event"
    /\ events' = Append(events, [event |-> "captcha_resume", song_index |-> state.song_index,
                                 title |-> state.spec.title])
    /\ pc' = "loop"
    /\ UNCHANGED <<ret, state, planner, attempt, msg, rows, ckpt, visited, captchas, create_fails, summary>>
    /\ UNCHANGED env
    /\ UNCHANGED <<gather, artifacts, stop_requested, results>>
    /\ UNCHANGED auto

\* the wait block: asyncio.sleep(config.wait_generation) when it is positive
WaitSleep ==
    /\ pc = "wait"
    /\ pc' = "wait_done"
    /\ visited' = Append(visited, <<state.song_index, "wait">>)
    /\ UNCHANGED <<ret, state, planner, attempt, msg, rows, ckpt, events, captchas, create_fails, summary>>
    /\ UNCHANGED env
    /\ UNCHANGED <<gather, artifacts, stop_requested, results>>
    /\ UNCHANGED auto

\* the wait block after the sleep: phase = "master_export", save
WaitDone ==
    /\ pc = "wait_done"
    /\ BeginSave([state EXCEPT !.phase = "master_export"], "master_export")
    /\ UNCHANGED <<planner, attempt, msg, rows, events, visited, captchas, create_fails, summary>>
    /\ UNCHANGED env
    /\ UNCHANGED <<gather, artifacts, stop_requested, results>>
    /\ UNCHANGED auto

\* the master_export block is entered: _run_step_with_retries starts with attempt 1
MasterBegin ==
    /\ pc = "master_export"
    /\ attempt' = 1
    /\ pc' = "master_call"
    /\ visited' = Append(visited, <<state.song_index, "master_export">>)
    /\ UNCHANGED <<ret, state, planner, msg, rows, ckpt, events, captchas, create_fails, summary>>
    /\ UNCHANGED env
    /\ UNCHANGED <<gather, artifacts, stop_requested, results>>
    /\ UNCHANGED auto

\* _step_master_export succeeds: summary row "OK"
MasterOk ==
    /\ pc = "master_call"
    /\ msg' = MasterOkMsg(state.profile, cfg.export_type)
    /\ rows' = Append(rows, <<state.song_index + 1, state.spec.title, "OK", msg'>>)
    /\ pc' = "song_completed_event"
    /\ UNCHANGED <<ret, state, planner, attempt, ckpt, events, visited, captchas, create_fails, summary>>
    /\ UNCHANGED env
    /\ UNCHANGED <<gather, artifacts, stop_requested, results>>
    /\ UNCHANGED auto

\* _step_master_export fails and attempt < max_attempts: sleep 2 s, next attempt
MasterRetry ==
    /\ pc = "master_call"
    /\ attempt < cfg.step_retries + 1
    /\ msg' = MasterFailMsg
    /\ attempt' = attempt + 1
    /\ UNCHANGED <<pc, ret, state, planner, rows, ckpt, events, visited, captchas, create_fails, summary>>
    /\ UNCHANGED env
    /\ UNCHANGED <<gather, artifacts, stop_requested, results>>
    /\ UNCHANGED auto

\* _step_master_export fails on the last attempt: last_error, summary row, save
MasterExhausted ==
    /\ pc = "master_call"
    /\ attempt >= cfg.step_retries + 1
    /\ msg' = MasterFailMsg
    /\ rows' = Append(rows, <<state.song_index + 1, state.spec.title,
                              "FAILED_MASTER_EXPORT", MasterFailMsg>>)
    /\ BeginSave([state EXCEPT !.last_error = PyStr(MasterFailMsg)], "master_failed_event")
    /\ UNCHANGED <<planner, attempt, events, visited, captchas, create_fails, summary>>
    /\ UNCHANGED env
    /\ UNCHANGED <<gather, artifacts, stop_requested, results>>
    /\ UNCHANGED auto

\* the track results of a master_and_export call when a CAPTCHA challenge
\* blocks the studio page: the message of each track is the one of the
\* studio skill that failed
BlockedResults ==
    { <<[success |-> FALSE, message |-> "CAPTCHA challenge blocked the studio"]>> }

\* _step_master_export: the tuple it returns for the results of master_and_export
StepMasterExport(rs, profile, export_type) ==
    IF \E k \in DOMAIN rs : rs[k].success
    THEN [ok |-> TRUE, msg |-> MasterOkMsg(profile, export_type)]
    ELSE [ok |-> FALSE, msg |-> MasterFailMsg]

\* the last attempt of the master_export step when a CAPTCHA challenge blocks
\* every track: _step_master_export returns its own message, then last_error,
\* summary row and save as for any failure
MasterExhaustedBlocked ==
    /\ pc = "master_call"
    /\ attempt >= cfg.step_retries + 1
    /\ \E rs \in BlockedResults :
          LET r == StepMasterExport(rs, state.profile, cfg.export_type)
          IN  /\ ~r.ok
              /\ results' = rs
              /\ msg' = r.msg
              /\ rows' = Append(rows, <<state.song_index + 1, state.spec.title,
                                        "FAILED_MASTER_EXPORT", r.msg>>)
              /\ BeginSave([state EXCEPT !.last_error = PyStr(r.msg)], "master_failed_event")
    /\ UNCHANGED <<planner, attempt, events, visited, captchas, create_fails, summary>>
    /\ UNCHANGED env
    /\ UNCHANGED <<gather, artifacts, stop_requested>>
    /\ UNCHANGED auto

\* MasterFailedEvent that leaves the loop whatever continue_on_error says
MasterFailedEvent_Break ==
    /\ pc = "master_failed_event"
    /\ events' = Append(events, [event |-> "master_export_failed",
                                 song_index |-> state.song_index,
                                 title |-> state.spec.title, message |-> msg])
    /\ pc' = "clear"
    /\ UNCHANGED <<ret, state, planner, attempt, msg, rows, ckpt, visited, captchas, create_fails, summary>>
    /\ UNCHANGED env
    /\ UNCHANGED <<gather, artifacts, stop_requested, results>>
    /\ UNCHANGED auto

\* MasterFailedEvent without the test of continue_on_error
MasterFailedEvent_IgnorePolicy ==
    /\ pc = "master_failed_event"
    /\ events' = Append(events, [event |-> "master_export_failed",
                                 song_index |-> state.song_index,
                                 title |-> state.spec.title, message |-> msg])
    /\ pc' = "advance"
    /\ UNCHANGED <<ret, state, planner, attempt, msg, rows, ckpt, visited, captchas, create_fails, summary>>
    /\ UNCHANGED env
    /\ UNCHANGED <<gather, artifacts, stop_requested, results>>
    /\ UNCHANGED auto

\* _append_event of "master_export_failed"; break unless continue_on_error
MasterFailedEvent ==
    /\ pc = "master_failed_event"
    /\ events' = Append(events, [event |-> "master_export_failed",
                                 song_index |-> state.song_index,
                                 title |-> state.spec.title, message |-> msg])
    /\ pc' = IF cfg.continue_on_error THEN "advance" ELSE "clear"
    /\ UNCHANGED <<ret, state, planner, attempt, msg, rows, ckpt, visited, captchas, create_fails, summary>>
    /\ UNCHANGED env
    /\ UNCHANGED <<gather, artifacts, stop_requested, results>>
    /\ UNCHANGED auto

\* SongCompletedEvent that records the 1-based job number of the summary row
SongCompletedEvent_OneBased ==
    /\ pc = "song_completed_event"
    /\ events' = Append(events, [event |-> "song_completed", song_index |-> state.song_index + 1,
                                 title |-> state.spec.title, message |-> msg])
    /\ pc' = "advance"
    /\ UNCHANGED <<ret, state, planner, attempt, msg, rows, ckpt, visited, captchas, create_fails, summary>>
    /\ UNCHANGED env
    /\ UNCHANGED <<gather, artifacts, stop_requested, results>>
    /\ UNCHANGED auto

\* _append_event of "song_completed"
SongCompletedEvent ==
    /\ pc = "song_completed_event"
    /\ events' = Append(events, [event |-> "song_completed", song_index |-> state.song_index,
                                 title |-> state.spec.title, message |-> msg])
    /\ pc' = "advance"
    /\ UNCHANGED <<ret, state, planner, attempt, msg, rows, ckpt, visited, captchas, create_fails, summary>>
    /\ UNCHANGED env
    /\ UNCHANGED <<gather, artifacts, stop_requested, results>>
    /\ UNCHANGED auto

\* end of the master_export block: song_index += 1, phase = "plan",
\* last_error = None, save; then the sleep between jobs and the next iteration
Advance ==
    /\ pc = "advance"
    /\ BeginSave([state EXCEPT !.song_index = state.song_index + 1, !.phase = "plan",
                               !.last_error = PyNone], "loop")
    /\ UNCHANGED <<planner, attempt, msg, rows, events, visited, captchas, create_fails, summary>>
    /\ UNCHANGED env
    /\ UNCHANGED <<gather, artifacts, stop_requested, results>>
    /\ UNCHANGED auto

\* Clear without the test song_index >= count
Clear_Always ==
    /\ pc = "clear"
    /\ ckpt' = Absent
    /\ pc' = "exited"
    /\ UNCHANGED <<ret, state, planner, attempt, msg, rows, events, visited, captchas, create_fails>>
    /\ summary' = rows
    /\ UNCHANGED env
    /\ UNCHANGED <<gather, artifacts, stop_requested, results>>
    /\ UNCHANGED auto

\* after the loop: _clear_checkpoint when song_index >= count, then show_summary
Clear ==
    /\ pc = "clear"
    /\ ckpt' = IF state.song_index >= cfg.count THEN Absent ELSE ckpt
    /\ pc' = "exited"
    /\ UNCHANGED <<ret, state, planner, attempt, msg, rows, events, visited, captchas, create_fails>>
    /\ summary' = rows
    /\ UNCHANGED env
    /\ UNCHANGED <<gather, artifacts, stop_requested, results>>
    /\ UNCHANGED auto

\* the process is killed; its memory is lost, the files stay
Crash ==
    /\ pc \notin {"crashed", "exited", "raised"}
    /\ crashes < MaxCrashes
    /\ crashes' = crashes + 1
    /\ crashState' = IF state = PyNone THEN PyNone
                     ELSE [song_index |-> state.song_index, phase |-> state.phase]
    /\ pc' = "crashed"
    /\ ret' = "none"
    /\ state' = PyNone
    /\ planner' = "template"
    /\ attempt' = 0
    /\ msg' = ""
    /\ rows' = <<>>
    /\ visited' = <<>>
    /\ UNCHANGED <<cfg, resume, ckpt, events, resume_flag, loadedFrom, captchas>>
    /\ gather' = PyNone
    /\ UNCHANGED <<artifacts, stop_requested, results>>
    /\ UNCHANGED auto
    /\ create_fails' = 0
    /\ summary' = PyNone

\* the operator starts the program again with the same settings and --resume
Restart ==
    /\ pc = "crashed"
    /\ resume' = TRUE
    /\ pc' = "start"
    /\ loadedFrom' = PyNone
    /\ UNCHANGED <<cfg, ret, state, planner, attempt, msg, rows, ckpt, events, resume_flag,
                   visited, crashState, crashes, captchas, create_fails, summary>>
    /\ UNCHANGED <<gather, artifacts, stop_requested, results>>
    /\ UNCHANGED auto

Next ==
    \/ SelectPlannerOk \/ SelectPlannerRaise
    \/ LoadResume \/ LoadFresh \/ SaveWrite \/ LoopTop
    \/ Plan \/ PlanRaise \/ PlannedEvent
    \/ CreateBegin \/ CreateOk \/ CreateRetry \/ CreateExhausted
    \/ CreateFailedEvent \/ CreateAbandon
    \/ CaptchaPauseEvent \/ WaitForResumeSignal \/ TouchResumeFile \/ CaptchaResumeEvent
    \/ WaitSleep \/ WaitDone
    \/ MasterBegin \/ MasterOk \/ MasterRetry \/ MasterExhausted
    \/ MasterFailedEvent \/ SongCompletedEvent \/ Advance
    \/ Clear

Spec == Init /\ [][Next]_vars

\* the same program when the process can be killed at any step and started again
NextCrash ==
    \/ SelectPlannerOk
    \/ LoadResume \/ LoadFresh \/ SaveWrite \/ LoopTop
    \/ Plan \/ PlannedEvent
    \/ CreateBegin \/ CreateOk \/ CreateRetry \/ CreateExhausted
    \/ CreateFailedEvent \/ CreateAbandon
    \/ WaitSleep \/ WaitDone
    \/ MasterBegin \/ MasterOk \/ MasterRetry \/ MasterExhausted
    \/ MasterFailedEvent \/ SongCompletedEvent \/ Advance
    \/ Clear \/ Crash \/ Restart

\* a first run without --resume and without a checkpoint file, of the template
\* planner, for two songs, without blocking conditions
InitCrash ==
    /\ cfg \in Configs
    /\ cfg.planner = "template"
    /\ cfg.count = 2
    /\ cfg.pause_on_captcha
    /\ resume = FALSE
    /\ pc = "start"
    /\ ret = "none"
    /\ state = PyNone
    /\ planner = "template"
    /\ attempt = 0
    /\ msg = ""
    /\ rows = <<>>
    /\ ckpt = Absent
    /\ events = <<>>
    /\ resume_flag = FALSE
    /\ visited = <<>>
    /\ loadedFrom = PyNone
    /\ crashState = PyNone
    /\ crashes = 0
    /\ captchas = MaxCaptchas
    /\ create_fails = 0
    /\ summary = PyNone
    /\ gather = PyNone
    /\ artifacts = <<>>
    /\ stop_requested = FALSE
    /\ results = <<>>
    /\ AutoIdle

SpecCrash == InitCrash /\ [][NextCrash]_vars

\* a resumed run whose planner and executor always succeed
InitResume ==
    /\ Init
    /\ resume
    /\ cfg.planner = "template"
    /\ FileKind(cfg, ckpt) = "usable"

NextOk ==
    \/ SelectPlannerOk \/ LoadResume \/ SaveWrite \/ LoopTop
    \/ Plan \/ PlannedEvent
    \/ CreateBegin \/ CreateOk
    \/ WaitSleep \/ WaitDone
    \/ MasterBegin \/ MasterOk \/ SongCompletedEvent \/ Advance
    \/ Clear

SpecOk == InitResume /\ [][NextOk]_vars

\* a run started without --resume, of the template planner, whose executor
\* always succeeds; every step of the coroutine completes
InitE2E ==
    /\ Init
    /\ ~resume
    /\ cfg.planner = "template"

NextE2E ==
    \/ SelectPlannerOk \/ LoadFresh \/ SaveWrite \/ LoopTop
    \/ Plan \/ PlannedEvent
    \/ CreateBegin \/ CreateOk
    \/ WaitSleep \/ WaitDone
    \/ MasterBegin \/ MasterOk \/ SongCompletedEvent \/ Advance
    \/ Clear

SpecE2E == InitE2E /\ [][NextE2E]_vars /\ WF_vars(NextE2E)

\* a run started without --resume with --phase2, whose executor always succeeds
InitPhase2 ==
    /\ \E c \in Configs, n \in 1..MaxCandidates :
          /\ c.count <= 2
          /\ c.step_retries = 0
          /\ c.continue_on_error
          /\ c.pause_on_captcha
          /\ cfg = [c EXCEPT !.phase2 = TRUE, !.candidate_count = n]
    /\ resume = FALSE
    /\ pc = "start"
    /\ ret = "none"
    /\ state = PyNone
    /\ planner = "template"
    /\ attempt = 0
    /\ msg = ""
    /\ rows = <<>>
    /\ ckpt = Absent
    /\ events = <<>>
    /\ resume_flag = FALSE
    /\ visited = <<>>
    /\ loadedFrom = PyNone
    /\ crashState = PyNone
    /\ crashes = 0
    /\ captchas = 0
    /\ create_fails = 0
    /\ summary = PyNone
    /\ gather = PyNone
    /\ artifacts = <<>>
    /\ stop_requested = FALSE
    /\ results = <<>>
    /\ AutoIdle

NextPhase2 ==
    \/ SelectPlannerOk \/ SelectPlannerRaise
    \/ LoadFresh \/ SaveWrite \/ LoopTop
    \/ Phase2Begin \/ Phase2TaskDone \/ Phase2NoViable \/ Phase2Decide \/ Phase2Plan
    \/ PlannedEvent
    \/ CreateBegin \/ CreateOk
    \/ WaitSleep \/ WaitDone
    \/ MasterBegin \/ MasterOk \/ SongCompletedEvent \/ Advance
    \/ Clear

SpecPhase2 == InitPhase2 /\ [][NextPhase2]_vars

\* the operator asks the run to stop; run has no attribute or argument that
\* receives the request and its loop condition reads none
RequestStop ==
    /\ ~stop_requested
    /\ pc \notin {"start", "exited", "raised", "crashed"}
    /\ stop_requested' = TRUE
    /\ UNCHANGED <<pc, ret, state, planner, attempt, msg, rows, ckpt, events, visited, captchas, create_fails, summary>>
    /\ UNCHANGED env
    /\ UNCHANGED <<gather, artifacts, results>>
    /\ UNCHANGED auto

\* the run of SpecE2E with an operator who may ask it to stop
NextStop == NextE2E \/ RequestStop

SpecStop == InitE2E /\ [][NextStop]_vars

\* the runs of Spec that use the template planner: fresh or resumed, over
\* every initial file, with every outcome of the executor and the pauses
InitTemplate ==
    /\ Init
    /\ cfg.planner = "template"

NextTemplate ==
    \/ SelectPlannerOk
    \/ LoadResume \/ LoadFresh \/ SaveWrite \/ LoopTop
    \/ Plan \/ PlannedEvent
    \/ CreateBegin \/ CreateOk \/ CreateRetry \/ CreateExhausted
    \/ CreateFailedEvent \/ CreateAbandon
    \/ CaptchaPauseEvent \/ WaitForResumeSignal \/ TouchResumeFile \/ CaptchaResumeEvent
    \/ WaitSleep \/ WaitDone
    \/ MasterBegin \/ MasterOk \/ MasterRetry \/ MasterExhausted
    \/ MasterFailedEvent \/ SongCompletedEvent \/ Advance
    \/ Clear

SpecTemplate == InitTemplate /\ [][NextTemplate]_vars

\* a run with continue_on_error of the template planner, fresh or resumed,
\* whose executor succeeds or fails at will but never on a blocking
\* condition; every step of the coroutine completes
InitTerm ==
    /\ Init
    /\ cfg.planner = "template"
    /\ cfg.continue_on_error

NextTerm ==
    \/ SelectPlannerOk
    \/ LoadResume \/ LoadFresh \/ SaveWrite \/ LoopTop
    \/ Plan \/ PlannedEvent
    \/ CreateBegin \/ CreateOk
    \/ (CreateRetry /\ captchas' = captchas)
    \/ (CreateExhausted /\ captchas' = captchas)
    \/ CreateFailedEvent \/ CreateAbandon
    \/ WaitSleep \/ WaitDone
    \/ MasterBegin \/ MasterOk \/ MasterRetry \/ MasterExhausted
    \/ MasterFailedEvent \/ SongCompletedEvent \/ Advance
    \/ Clear

SpecTerm == InitTerm /\ [][NextTerm]_vars /\ WF_vars(NextTerm)

\* records that _load_checkpoint accepts under intent mt: any phase string,
\* "done" of the AutopilotState comment included, with or without a spec
AcceptedStates(mt) ==
    { [song_index |-> i, phase |-> ph,
       profile |-> SpecPlannerGenerate(mt, i, <<1, 2, 3>>).profile,
       spec |-> IF sp THEN SpecPlannerGenerate(mt, i, <<1, 2, 3>>).spec ELSE PyNone,
       last_error |-> PyNone] :
        i \in 0..(MaxCount - 1), ph \in PipelinePhases \cup {"done"}, sp \in BOOLEAN }

\* a run with --resume of the template planner that finds such a record for
\* a job below count; the executor always succeeds and every step completes
InitAccepted ==
    /\ cfg \in Configs
    /\ cfg.planner = "template"
    /\ resume = TRUE
    /\ \E s \in AcceptedStates(cfg.music_type) :
          /\ s.song_index < cfg.count
          /\ ckpt = _save_checkpoint(cfg, s)
    /\ pc = "start"
    /\ ret = "none"
    /\ state = PyNone
    /\ planner = "template"
    /\ attempt = 0
    /\ msg = ""
    /\ rows = <<>>
    /\ events = <<>>
    /\ resume_flag = FALSE
    /\ visited = <<>>
    /\ loadedFrom = PyNone
    /\ crashState = PyNone
    /\ crashes = 0
    /\ captchas = 0
    /\ create_fails = 0
    /\ summary = PyNone
    /\ gather = PyNone
    /\ artifacts = <<>>
    /\ stop_requested = FALSE
    /\ results = <<>>
    /\ AutoIdle

SpecAccepted == InitAccepted /\ [][NextOk]_vars /\ WF_vars(NextOk)

\* run has returned and the operator starts the program again with the same
\* settings and --resume: the memory of the process is new, the files stay
RestartAfterExit ==
    /\ pc = "exited"
    /\ ~resume
    /\ resume' = TRUE
    /\ crashState' = [song_index |-> state.song_index, phase |-> state.phase]
    /\ pc' = "start"
    /\ ret' = "none"
    /\ state' = PyNone
    /\ planner' = "template"
    /\ attempt' = 0
    /\ msg' = ""
    /\ rows' = <<>>
    /\ visited' = <<>>
    /\ loadedFrom' = PyNone
    /\ create_fails' = 0
    /\ summary' = PyNone
    /\ UNCHANGED <<cfg, ckpt, events, resume_flag, crashes, captchas>>
    /\ UNCHANGED <<gather, artifacts, stop_requested, results>>
    /\ UNCHANGED auto

\* a first run of the template planner without pause on blocking
\* conditions, and a second run with --resume after the first has returned
InitRerun ==
    /\ cfg \in Configs
    /\ cfg.planner = "template"
    /\ ~cfg.pause_on_captcha
    /\ resume = FALSE
    /\ pc = "start"
    /\ ret = "none"
    /\ state = PyNone
    /\ planner = "template"
    /\ attempt = 0
    /\ msg = ""
    /\ rows = <<>>
    /\ ckpt = Absent
    /\ events = <<>>
    /\ resume_flag = FALSE
    /\ visited = <<>>
    /\ loadedFrom = PyNone
    /\ crashState = PyNone
    /\ crashes = 0
    /\ captchas = 0
    /\ create_fails = 0
    /\ summary = PyNone
    /\ gather = PyNone
    /\ artifacts = <<>>
    /\ stop_requested = FALSE
    /\ results = <<>>
    /\ AutoIdle

NextRerun ==
    \/ SelectPlannerOk
    \/ LoadResume \/ LoadFresh \/ SaveWrite \/ LoopTop
    \/ Plan \/ PlannedEvent
    \/ CreateBegin \/ CreateOk \/ CreateRetry \/ CreateExhausted
    \/ CreateFailedEvent \/ CreateAbandon
    \/ WaitSleep \/ WaitDone
    \/ MasterBegin \/ MasterOk \/ SongCompletedEvent \/ Advance
    \/ Clear \/ RestartAfterExit

SpecRerun == InitRerun /\ [][NextRerun]_vars

\* the run of SpecE2E when a CAPTCHA challenge can block the master_export step
NextMasterBlocked ==
    \/ NextE2E
    \/ MasterRetry \/ MasterExhaustedBlocked \/ MasterFailedEvent

SpecMasterBlocked == InitE2E /\ [][NextMasterBlocked]_vars

\* a first run of the template planner that pauses on blocking conditions;
\* the resume file may be left over from before the run, its unlink may fail,
\* and the waiting loop polls again every 2 s for as long as it waits
InitPause ==
    /\ cfg \in Configs
    /\ cfg.planner = "template"
    /\ cfg.pause_on_captcha
    /\ resume = FALSE
    /\ pc = "start"
    /\ ret = "none"
    /\ state = PyNone
    /\ planner = "template"
    /\ attempt = 0
    /\ msg = ""
    /\ rows = <<>>
    /\ ckpt = Absent
    /\ events = <<>>
    /\ resume_flag \in BOOLEAN
    /\ visited = <<>>
    /\ loadedFrom = PyNone
    /\ crashState = PyNone
    /\ crashes = 0
    /\ captchas = 0
    /\ create_fails = 0
    /\ summary = PyNone
    /\ gather = PyNone
    /\ artifacts = <<>>
    /\ stop_requested = FALSE
    /\ results = <<>>
    /\ AutoIdle

NextPause ==
    \/ SelectPlannerOk
    \/ LoadFresh \/ SaveWrite \/ LoopTop
    \/ Plan \/ PlannedEvent
    \/ CreateBegin \/ CreateOk \/ CreateRetry \/ CreateExhausted
    \/ CreateFailedEvent \/ CreateAbandon
    \/ CaptchaPauseEvent \/ WaitForResumeSignal \/ WaitForResumeSignalUnlinkFails
    \/ TouchResumeFile \/ CaptchaResumeEvent
    \/ WaitSleep \/ WaitDone
    \/ MasterBegin \/ MasterOk \/ MasterRetry \/ MasterExhausted
    \/ MasterFailedEvent \/ SongCompletedEvent \/ Advance
    \/ Clear

SpecPause ==
    /\ InitPause
    /\ [][NextPause]_vars
    /\ WF_vars(WaitForResumeSignal \/ WaitForResumeSignalUnlinkFails)

----------------------------------------------------------------------------------------------------------------------------------------------------
(* AutoCreateAgent.run *)

\* AutoCreateConfig as the autocreate command builds it (retries >= 0,
\* max_songs >= 0, hours >= 0), with the length of specs
AutoCreateConfigs ==
    [retries : 0..MaxRetries,
     max_songs : 0..MaxSongs,
     max_hours : {0, 6},
     forever : BOOLEAN,
     cycle_specs : BOOLEAN,
     pause_on_captcha : BOOLEAN,
     nspecs : 0..MaxSpecs]

\* should_stop with the target test successes > max_songs
should_stop_Strict(config, requested, succ, idx, over) ==
    IF requested THEN PyStr("stop requested")
    ELSE IF config.max_songs > 0 /\ succ > config.max_songs THEN PyStr("target reached")
    ELSE IF config.max_hours > 0 /\ over THEN PyStr("time limit reached")
    ELSE IF ~config.forever /\ config.max_songs <= 0 /\ config.max_hours <= 0
            /\ idx >= config.nspecs
    THEN PyStr("completed single pass over input specs")
    ELSE PyNone

\* should_stop: the reason to stop, or None; over says whether the elapsed
\* hours have reached max_hours
should_stop(config, requested, succ, idx, over) ==
    IF requested THEN PyStr("stop requested")
    ELSE IF config.max_songs > 0 /\ succ >= config.max_songs THEN PyStr("target reached")
    ELSE IF config.max_hours > 0 /\ over THEN PyStr("time limit reached")
    ELSE IF ~config.forever /\ config.max_songs <= 0 /\ config.max_hours <= 0
            /\ idx >= config.nspecs
    THEN PyStr("completed single pass over input specs")
    ELSE PyNone

\* the log entry of one create attempt
CreateAttempt(idx, n, success, message) ==
    [event |-> "create_attempt", spec_index |-> idx, attempt |-> n,
     success |-> success, message |-> message]

\* number of pauses recorded in the log
Pauses(entries) == Len(SelectSeq(entries, LAMBDA e : e.event = "captcha_pause"))

\* the start of run: no specs, return; else spec_idx = 0
AcStart ==
    /\ auto.pc = "start"
    /\ auto' = [auto EXCEPT !.spec_idx = 0,
                            !.pc = IF auto.config.nspecs = 0 THEN "returned" ELSE "top"]
    /\ UNCHANGED <<cfg, resume, pc, ret, state, planner, attempt, msg, rows, ckpt, events,
                   resume_flag, visited, loadedFrom, crashState, crashes, captchas,
                   create_fails, summary, gather, artifacts, stop_requested, results>>

\* AcLoopTop with the wrap of spec_idx tested before should_stop
AcLoopTop_CycleFirst ==
    /\ auto.pc = "top"
    /\ \E over \in BOOLEAN :
          LET idx == IF auto.spec_idx >= auto.config.nspecs /\ auto.config.cycle_specs
                     THEN 0 ELSE auto.spec_idx
              stop_reason == should_stop(auto.config, stop_requested, auto.successes, idx, over)
          IN  auto' = IF stop_reason # PyNone \/ idx >= auto.config.nspecs
                      THEN [auto EXCEPT !.pc = "returned"]
                      ELSE [auto EXCEPT !.spec_idx = idx, !.created = FALSE,
                                        !.attempt = 1, !.pc = "attempt"]
    /\ UNCHANGED <<cfg, resume, pc, ret, state, planner, attempt, msg, rows, ckpt, events,
                   resume_flag, visited, loadedFrom, crashState, crashes, captchas,
                   create_fails, summary, gather, artifacts, stop_requested, results>>

\* top of the while loop: should_stop, the wrap or the end of the specs,
\* then the for loop starts with attempt 1; show_summary after a break
AcLoopTop ==
    /\ auto.pc = "top"
    /\ \E over \in BOOLEAN :
          LET stop_reason == should_stop(auto.config, stop_requested, auto.successes,
                                         auto.spec_idx, over)
          IN  auto' = IF stop_reason # PyNone
                      THEN [auto EXCEPT !.pc = "returned"]
                      ELSE IF auto.spec_idx >= auto.config.nspecs /\ ~auto.config.cycle_specs
                      THEN [auto EXCEPT !.pc = "returned"]
                      ELSE [auto EXCEPT !.spec_idx = IF auto.spec_idx >= auto.config.nspecs
                                                     THEN 0 ELSE auto.spec_idx,
                                        !.created = FALSE,
                                        !.attempt = 1,
                                        !.pc = "attempt"]
    /\ UNCHANGED <<cfg, resume, pc, ret, state, planner, attempt, msg, rows, ckpt, events,
                   resume_flag, visited, loadedFrom, crashState, crashes, captchas,
                   create_fails, summary, gather, artifacts, stop_requested, results>>

\* an attempt whose create_song succeeds: log, successes += 1, created, break
AcCreateOk ==
    /\ auto.pc = "attempt"
    /\ auto.attempts < MaxAttempts
    /\ auto' = [auto EXCEPT !.attempts = auto.attempts + 1,
                            !.log = Append(auto.log, CreateAttempt(auto.spec_idx, auto.attempt,
                                                                   TRUE, CreateOkMsg)),
                            !.successes = auto.successes + 1,
                            !.created = TRUE,
                            !.pc = "after_loop"]
    /\ UNCHANGED <<cfg, resume, pc, ret, state, planner, attempt, msg, rows, ckpt, events,
                   resume_flag, visited, loadedFrom, crashState, crashes, captchas,
                   create_fails, summary, gather, artifacts, stop_requested, results>>

\* an attempt whose create_song fails: log, and the captcha_pause entry when
\* the message carries the marker and pause_on_captcha is set
AcCreateFail ==
    /\ auto.pc = "attempt"
    /\ auto.attempts < MaxAttempts
    /\ \E m \in CreateFailMsgs :
          LET entry == CreateAttempt(auto.spec_idx, auto.attempt, FALSE, m)
              pause == [event |-> "captcha_pause", spec_index |-> auto.spec_idx,
                        attempt |-> auto.attempt]
          IN  /\ HasCaptcha(m) => Pauses(auto.log) < MaxCaptchas
              /\ auto' = IF auto.config.pause_on_captcha /\ HasCaptcha(m)
                         THEN [auto EXCEPT !.attempts = auto.attempts + 1,
                                           !.log = auto.log \o <<entry, pause>>,
                                           !.pc = "paused"]
                         ELSE [auto EXCEPT !.attempts = auto.attempts + 1,
                                           !.log = Append(auto.log, entry),
                                           !.pc = "retry_wait"]
    /\ UNCHANGED <<cfg, resume, pc, ret, state, planner, attempt, msg, rows, ckpt, events,
                   resume_flag, visited, loadedFrom, crashState, crashes, captchas,
                   create_fails, summary, gather, artifacts, stop_requested, results>>

\* the operator creates the resume file of the paused queue
AcTouchResumeFile ==
    /\ auto.pc = "paused"
    /\ ~auto.resume_flag
    /\ auto' = [auto EXCEPT !.resume_flag = TRUE]
    /\ UNCHANGED <<cfg, resume, pc, ret, state, planner, attempt, msg, rows, ckpt, events,
                   resume_flag, visited, loadedFrom, crashState, crashes, captchas,
                   create_fails, summary, gather, artifacts, stop_requested, results>>

\* a poll of the pause finds the resume file: unlink, captcha_resume entry
AcResumeSignal ==
    /\ auto.pc = "paused"
    /\ auto.resume_flag
    /\ auto' = [auto EXCEPT !.resume_flag = FALSE,
                            !.log = Append(auto.log, [event |-> "captcha_resume",
                                                      spec_index |-> auto.spec_idx,
                                                      attempt |-> auto.attempt]),
                            !.pc = "retry_wait"]
    /\ UNCHANGED <<cfg, resume, pc, ret, state, planner, attempt, msg, rows, ckpt, events,
                   resume_flag, visited, loadedFrom, crashState, crashes, captchas,
                   create_fails, summary, gather, artifacts, stop_requested, results>>

\* AcRetryWait that gives the attempt back after a pause
AcRetryWait_PauseFree ==
    /\ auto.pc = "retry_wait"
    /\ auto' = IF auto.log[Len(auto.log)].event = "captcha_resume"
               THEN [auto EXCEPT !.pc = "attempt"]
               ELSE IF auto.attempt < auto.config.retries + 1
               THEN [auto EXCEPT !.attempt = auto.attempt + 1, !.pc = "attempt"]
               ELSE [auto EXCEPT !.pc = "after_loop"]
    /\ UNCHANGED <<cfg, resume, pc, ret, state, planner, attempt, msg, rows, ckpt, events,
                   resume_flag, visited, loadedFrom, crashState, crashes, captchas,
                   create_fails, summary, gather, artifacts, stop_requested, results>>

\* end of a failed attempt: the sleep when attempt <= retries, then the
\* next value of range(1, retries + 2) or the end of the for loop
AcRetryWait ==
    /\ auto.pc = "retry_wait"
    /\ auto' = IF auto.attempt < auto.config.retries + 1
               THEN [auto EXCEPT !.attempt = auto.attempt + 1, !.pc = "attempt"]
               ELSE [auto EXCEPT !.pc = "after_loop"]
    /\ UNCHANGED <<cfg, resume, pc, ret, state, planner, attempt, msg, rows, ckpt, events,
                   resume_flag, visited, loadedFrom, crashState, crashes, captchas,
                   create_fails, summary, gather, artifacts, stop_requested, results>>

\* after the for loop: failures += 1 when not created, cooldown, spec_idx += 1
AcAfterLoop ==
    /\ auto.pc = "after_loop"
    /\ auto' = [auto EXCEPT !.failures = IF ~auto.created THEN auto.failures + 1
                                         ELSE auto.failures,
                            !.spec_idx = auto.spec_idx + 1,
                            !.pc = "top"]
    /\ UNCHANGED <<cfg, resume, pc, ret, state, planner, attempt, msg, rows, ckpt, events,
                   resume_flag, visited, loadedFrom, crashState, crashes, captchas,
                   create_fails, summary, gather, artifacts, stop_requested, results>>

\* the autocreate command: a new AutoCreateAgent runs a queue of specs
InitAuto ==
    /\ \E config \in AutoCreateConfigs : auto = NewAgent(config, "start")
    /\ cfg = PyNone
    /\ resume = FALSE
    /\ pc = "idle"
    /\ ret = "none"
    /\ state = PyNone
    /\ planner = "template"
    /\ attempt = 0
    /\ msg = ""
    /\ rows = <<>>
    /\ ckpt = Absent
    /\ events = <<>>
    /\ resume_flag = FALSE
    /\ visited = <<>>
    /\ loadedFrom = PyNone
    /\ crashState = PyNone
    /\ crashes = 0
    /\ captchas = 0
    /\ create_fails = 0
    /\ summary = PyNone
    /\ gather = PyNone
    /\ artifacts = <<>>
    /\ stop_requested = FALSE
    /\ results = <<>>

NextAuto ==
    \/ AcStart \/ AcLoopTop
    \/ AcCreateOk \/ AcCreateFail
    \/ AcTouchResumeFile \/ AcResumeSignal
    \/ AcRetryWait \/ AcAfterLoop

SpecAuto == InitAuto /\ [][NextAuto]_vars

----------------------------------------------------------------------------
(* Properties *)

\* pipeline order on (song_index, phase)
NotLater(a, b) ==
    \/ a.song_index < b.song_index
    \/ a.song_index = b.song_index /\ PhaseRank(a.phase) <= PhaseRank(b.phase)

\* the checkpoint file holds a complete record of this song_index and phase
Records(file, song_index, phase) ==
    /\ file # Absent
    /\ file # Partial
    /\ file.payload.song_index = JNum(song_index)
    /\ file.payload.phase = JStr(phase)

LastEvent == events[Len(events)]

\* C1: when run is about to start the create action, the wait sleep or the
\* master_export action of job i, the checkpoint file records song_index = i
\* and that phase; and a run resumed after a crash starts at a
\* (song_index, phase) not later than the one in memory at the crash.
C1_CheckpointHappensBefore ==
    /\ pc = "create_call" => state.phase = "create" /\ Records(ckpt, state.song_index, "create")
    /\ pc = "wait" => state.phase = "wait" /\ Records(ckpt, state.song_index, "wait")
    /\ pc = "master_call" =>
           state.phase = "master_export" /\ Records(ckpt, state.song_index, "master_export")
    /\ (pc # "crashed" /\ resume /\ crashState # PyNone /\ loadedFrom # PyNone)
           => NotLater(loadedFrom, crashState)

C1_Witness ==
    /\ crashes > 0
    /\ crashState # PyNone
    /\ crashState.phase = "master_export"
    /\ resume
    /\ loadedFrom # PyNone
    /\ loadedFrom.kind = "usable"
    /\ pc = "master_call"

\* the block that follows a block in the pipeline
NextInPipeline(v) ==
    CASE v[2] = "plan" -> <<v[1], "create">>
      [] v[2] = "create" -> <<v[1], "wait">>
      [] v[2] = "wait" -> <<v[1], "master_export">>
      [] OTHER -> <<v[1] + 1, "plan">>

\* C2: resume idempotence: a run resumed at phase X whose planner and
\* executor always succeed enters the blocks in pipeline order starting at
\* (song_index, X), skipping none and repeating none, through the
\* master_export block of the last job, and ends with song_index >= count.
C2_ResumeVisitsInOrder ==
    /\ pc # "raised"
    /\ loadedFrom # PyNone =>
          /\ visited # <<>> => visited[1] = <<loadedFrom.song_index, loadedFrom.phase>>
          /\ \A k \in 1..(Len(visited) - 1) : visited[k + 1] = NextInPipeline(visited[k])
          /\ pc = "exited" =>
                /\ state.song_index >= cfg.count
                /\ loadedFrom.song_index < cfg.count =>
                      /\ visited # <<>>
                      /\ visited[Len(visited)] = <<cfg.count - 1, "master_export">>
                      /\ state.song_index = cfg.count

C2_Witness ==
    /\ pc = "exited"
    /\ cfg.count = 2
    /\ loadedFrom.song_index = 0
    /\ loadedFrom.phase = "wait"
    /\ Len(visited) = 6

\* C3: every state that is persisted has phase = plan => spec is null and
\* phase in {create, wait, master_export} => spec is not null.
C3_SpecNullIffPlan ==
    pc = "save" =>
        /\ state.phase = "plan" => state.spec = PyNone
        /\ state.phase \in {"create", "wait", "master_export"} => state.spec # PyNone

\* the job of this index has just been completed, or abandoned after its
\* retries were exhausted under continue_on_error
JobFinalised(i) ==
    /\ events # <<>>
    /\ LastEvent.song_index = i
    /\ \/ LastEvent.event = "song_completed"
       \/ /\ LastEvent.event \in {"create_failed", "master_export_failed"}
          /\ cfg.continue_on_error
          /\ attempt = cfg.step_retries + 1

\* C4: monotonic progress: within a run every step leaves song_index
\* unchanged or increases it by exactly 1, and each increase follows the
\* completion or the abandonment of exactly the job of that index.
C4_MonotonicProgress ==
    [][(state # PyNone /\ state' # PyNone) =>
          \/ state'.song_index = state.song_index
          \/ /\ state'.song_index = state.song_index + 1
             /\ JobFinalised(state.song_index)]_vars

C4_Witness ==
    /\ state # PyNone
    /\ state.song_index = 2
    /\ Len(events) >= 2
    /\ LastEvent.event = "song_completed"
    /\ \E i \in DOMAIN events :
          events[i].event = "master_export_failed" /\ events[i].song_index = 0

\* C5 as claimed: song_index is incremented only while the phase of the job
\* is master_export, never while it is plan, create or wait.
C5_OnlyAfterMasterExport ==
    [][(state # PyNone /\ state' # PyNone /\ state'.song_index # state.song_index) =>
          state.phase = "master_export"]_vars

\* C5 as amended: song_index is incremented only when master_export has just
\* succeeded, or when the create or master_export step of the job has just
\* been abandoned under continue_on_error without a blocking condition;
\* never while the phase is plan or wait.
C5_OnlyAfterSuccessOrAbandon ==
    [][(state # PyNone /\ state' # PyNone /\ state'.song_index # state.song_index) =>
          /\ events # <<>>
          /\ LastEvent.song_index = state.song_index
          /\ \/ state.phase = "master_export" /\ LastEvent.event = "song_completed"
             \/ /\ state.phase = "master_export"
                /\ LastEvent.event = "master_export_failed"
                /\ cfg.continue_on_error
             \/ /\ state.phase = "create"
                /\ LastEvent.event = "create_failed"
                /\ ~HasCaptcha(LastEvent.message)
                /\ cfg.continue_on_error]_vars

C5_Witness ==
    /\ state # PyNone
    /\ state.song_index = 1
    /\ state.phase = "plan"
    /\ pc = "loop"
    /\ events # <<>>
    /\ LastEvent.event = "create_failed"
    /\ LastEvent.song_index = 0

\* C6: the checkpoint file is deleted only when song_index >= count, and a
\* run that ends early (stop on error, blocking condition without pause,
\* planner failure in the plan block) leaves a checkpoint file that records
\* the song_index and the phase of the unfinished job.
C6_ClearedOnlyAtCompletion ==
    /\ []((pc \in {"exited", "raised"} /\ state # PyNone /\ state.song_index < cfg.count)
             => Records(ckpt, state.song_index, state.phase))
    /\ [][(ckpt # Absent /\ ckpt' = Absent) => state.song_index >= cfg.count]_vars

C6_Witness ==
    /\ pc = "exited"
    /\ state.song_index = 1
    /\ state.song_index < cfg.count
    /\ state.phase = "create"
    /\ Records(ckpt, 1, "create")

\* C7: intent-mismatch isolation: when resume is requested and the
\* checkpoint file was saved under another music_type, the load step starts
\* the run from the fresh state (song_index 0, phase plan) and raises nothing,
\* whatever the stored record holds.
C7_IntentMismatchStartsFresh ==
    [][(pc = "load" /\ resume /\ FileKind(cfg, ckpt) = "intent_mismatch") =>
          /\ state' = FreshState
          /\ pc' = "save"
          /\ ret' = "loop"]_vars

C7_Witness ==
    /\ resume
    /\ loadedFrom # PyNone
    /\ loadedFrom.kind = "intent_mismatch"
    /\ state = FreshState
    /\ pc = "plan"

\* C8: checkpoint round trip: loading what was saved under the same
\* configuration returns the saved state, equal in all five fields.
C8_RoundTrip ==
    state # PyNone => _load_checkpoint(cfg, _save_checkpoint(cfg, state)) = state

C8_Witness ==
    /\ state # PyNone
    /\ state.song_index > 0
    /\ state.phase = "master_export"
    /\ state.spec # PyNone
    /\ state.last_error # PyNone
    /\ state.profile # FreshState.profile

\* C9: the save is atomic for an observer: no step of the program leaves a
\* partially written record in the checkpoint file.
C9_SaveIsAtomic ==
    [][ckpt' = Partial => ckpt = Partial]_vars

\* C10: when resume is requested and the checkpoint file is unparseable or
\* of another intent, the run starts from the fresh state and an event
\* recording the unusable checkpoint is in the event log.
C10_UnusableCheckpointRecorded ==
    (/\ resume
     /\ loadedFrom # PyNone
     /\ loadedFrom.kind \in {"unparseable", "intent_mismatch"}
     /\ pc = "loop")
        => /\ state.song_index = 0
           /\ \E i \in DOMAIN events : events[i].event = "checkpoint_unusable"

----------------------------------------------------------------------------
\* C11: a step whose external action always fails without a blocking
\* condition is marked failed after exactly step_retries + 1 attempts, and a
\* step whose attempt k is the first to succeed makes exactly k attempts,
\* k <= step_retries + 1
StepMarkedFailed(step) ==
    \/ pc = "save" /\ ret = step
    \/ pc = step

C11_RetryBound ==
    /\ pc \in {"create_call", "master_call"} => attempt \in 1..(cfg.step_retries + 1)
    /\ (pc = "create_call" /\ captchas = 0) => create_fails = attempt - 1
    /\ StepMarkedFailed("create_failed_event") =>
          /\ attempt = cfg.step_retries + 1
          /\ captchas = 0 => create_fails = cfg.step_retries + 1
    /\ StepMarkedFailed("master_failed_event") => attempt = cfg.step_retries + 1
    /\ (pc = "save" /\ ret = "wait") => attempt \in 1..(cfg.step_retries + 1)
    /\ pc = "song_completed_event" => attempt \in 1..(cfg.step_retries + 1)

C11_Witness ==
    /\ pc = "create_failed_event"
    /\ cfg.step_retries >= 1
    /\ captchas = 0
    /\ create_fails = cfg.step_retries + 1

----------------------------------------------------------------------------
\* C12: with pausing on blocking conditions enabled, a create attempt that
\* fails with the blocking-condition marker is followed by the pause/resume
\* wait before any further attempt of the step: it is never followed by a
\* plain retry
C12_BlockingFailurePauses ==
    [][(cfg.pause_on_captcha /\ pc = "create_call" /\ captchas' = captchas + 1)
          => (pc' = "save" /\ ret' = "create_failed_event")]_vars

----------------------------------------------------------------------------
\* C13: blocking-condition failures do not consume the retry budget: a job's
\* create step is marked failed on an ordinary failure after exactly
\* step_retries + 1 ordinary failed attempts, however blocking-condition
\* failures and pauses are interleaved with them
C13_BlockingKeepsRetryBudget ==
    (StepMarkedFailed("create_failed_event") /\ ~HasCaptcha(msg))
        => create_fails = cfg.step_retries + 1

----------------------------------------------------------------------------
\* C14: while the run waits for the resume signal, song_index and phase do
\* not change in memory or in the checkpoint file, and after the wait the
\* next external action is the create step of the job that was paused
JustResumed == events # <<>> /\ LastEvent.event = "captcha_resume"

C14_PausePreservesPosition ==
    /\ [](pc \in {"waiting", "captcha_resume_event"} =>
             /\ state.phase = "create"
             /\ LastEvent.song_index = state.song_index
             /\ Records(ckpt, state.song_index, "create"))
    /\ [][pc = "waiting" => (state' = state /\ ckpt' = ckpt)]_vars
    /\ [][pc = "captcha_resume_event" => (state' = state /\ ckpt' = ckpt /\ pc' = "loop")]_vars
    /\ [][(pc = "loop" /\ JustResumed) => (state' = state /\ ckpt' = ckpt /\ pc' = "create")]_vars
    /\ [][(pc = "create" /\ JustResumed) =>
             /\ state' = state /\ ckpt' = ckpt /\ pc' = "create_call"
             /\ visited'[Len(visited')] = <<LastEvent.song_index, "create">>]_vars

C14_Witness ==
    /\ pc = "create_call"
    /\ JustResumed
    /\ attempt = 1
    /\ state.song_index = LastEvent.song_index

----------------------------------------------------------------------------
\* C15: whenever _wait_for_resume_signal returns, the flag file has been
\* deleted in the step that satisfied the wait (also when the delete fails),
\* so that one creation of the flag satisfies at most one pause
C15_FlagConsumedOnReturn ==
    [][(pc = "waiting" /\ pc' = "captcha_resume_event") => ~resume_flag']_vars

----------------------------------------------------------------------------
\* C16: _wait_for_resume_signal returns only after the flag file has been
\* observed to exist during the wait; and when the loop keeps polling, a flag
\* that exists and is left in place makes the wait return and the run go on
C16_WaitReturnsOnFlag ==
    /\ [][(pc = "waiting" /\ pc' # "waiting") => resume_flag]_vars
    /\ (pc = "waiting" /\ resume_flag) ~> (pc = "captcha_resume_event")

C16_Witness ==
    /\ pc = "captcha_resume_event"
    /\ LastEvent.event = "captcha_pause"
    /\ LastEvent.song_index = state.song_index

----------------------------------------------------------------------------
\* C17: when all attempts of a create or master_export step fail without a
\* blocking condition, a *_failed event carrying the error is recorded; then
\* without continue_on_error the run stops with song_index and phase at the
\* failing step and nothing more is planned or executed, and with
\* continue_on_error song_index advances by 1 and phase returns to plan
OrdinaryFailure ==
    /\ events # <<>>
    /\ LastEvent.event \in {"create_failed", "master_export_failed"}
    /\ ~HasCaptcha(LastEvent.message)

FailedStep == IF LastEvent.event = "create_failed" THEN "create" ELSE "master_export"

C17_FailureStopsOrAdvances ==
    /\ (pc = "abandon" \/ (pc = "advance" /\ msg = MasterFailMsg)) =>
          /\ OrdinaryFailure
          /\ LastEvent.message = msg
          /\ LastEvent.song_index = state.song_index
          /\ FailedStep = state.phase
    /\ (OrdinaryFailure /\ ~cfg.continue_on_error) =>
          /\ pc \in {"clear", "exited"}
          /\ state.song_index = LastEvent.song_index
          /\ state.phase = FailedStep
          /\ visited[Len(visited)] = <<LastEvent.song_index, FailedStep>>
    /\ (OrdinaryFailure /\ cfg.continue_on_error) =>
          \/ /\ pc \in {"abandon", "advance"}
             /\ state.song_index = LastEvent.song_index
             /\ state.phase = FailedStep
          \/ /\ pc \in {"save", "loop", "plan", "raised", "clear", "exited"}
             /\ state.song_index = LastEvent.song_index + 1
             /\ state.phase = "plan"
          \/ /\ (pc = "save" /\ ret = "planned_event") \/ pc = "planned_event"
             /\ state.song_index = LastEvent.song_index + 1
             /\ state.phase = "create"

C17_Witness ==
    /\ pc = "exited"
    /\ OrdinaryFailure
    /\ LastEvent.event = "master_export_failed"
    /\ ~cfg.continue_on_error
    /\ state.song_index < cfg.count

----------------------------------------------------------------------------
\* C18: a fresh run of count N with the template planner and an executor that
\* always succeeds terminates with song_index = N, no checkpoint file, and
\* exactly N song_completed events, of song_index 0, 1, ..., N-1 in this order
SongCompleted == SelectSeq(events, LAMBDA e : e.event = "song_completed")

----------------------------------------------------------------------------
\* C19: a failure of the planner in the plan phase is fatal and not retried:
\* the run ends there, nothing is planned or executed afterwards, and the
\* checkpoint file still records the failing job's song_index with phase plan
PlanningFailed ==
    /\ state # PyNone
    /\ state.phase = "plan"
    /\ visited # <<>>
    /\ visited[Len(visited)] = <<state.song_index, "plan">>

C19_PlanningFailureIsFatal ==
    /\ [](PlanningFailed =>
             /\ pc = "raised"
             /\ Records(ckpt, state.song_index, "plan"))
    /\ [][pc # "raised"]_vars

C19_Witness ==
    /\ PlanningFailed
    /\ pc = "raised"
    /\ state.song_index = 1
    /\ Len(events) > 0

----------------------------------------------------------------------------
\* C20: when a planning failure ends the run, the end-of-run summary is
\* produced on this exit path as well, with the rows of every job finished
\* before the failure
C20_SummaryOnPlanningFailure == PlanningFailed => summary = rows

----------------------------------------------------------------------------
\* C21: with planner selection "auto", a failure of the model-backed planner,
\* at selection time or in a generate call of the plan phase, makes the
\* template planner produce the spec instead of ending the run, and a
\* warning event is recorded for the fallback
C21_AutoFallsBack ==
    cfg.planner = "auto" =>
        /\ ~PlanningFailed
        /\ (pc \notin {"start", "crashed"} /\ planner = "template") =>
              \E k \in DOMAIN events : events[k].event = "planner_fallback"

----------------------------------------------------------------------------
\* C22: every planner invocation of build_plan runs to completion whatever
\* the others do, and the design record holds exactly one entry per
\* invocation, a spec with its score or an error with score -1.0, in ordinal
\* order whatever the order of completion
LastDesign == artifacts[Len(artifacts) - 1]

C22_GatherKeepsEveryCandidate ==
    /\ [](pc = "phase2_plan" =>
             LET n == Max(1, cfg.candidate_count)
             IN  /\ Len(gather.results) = n
                 /\ Len(gather.order) = n
                 /\ LastDesign.phase = "design"
                 /\ LastDesign.candidate_count = n
                 /\ Len(LastDesign.candidates) = n
                 /\ \A i \in 1..n :
                       LET c == LastDesign.candidates[i]
                           item == gather.results[i]
                       IN  /\ c.candidate = i
                           /\ item.task \in {"raised", "returned"}
                           /\ item.task = "raised" =>
                                 /\ DOMAIN c = {"candidate", "error", "score"}
                                 /\ c.error = item.error
                                 /\ c.score = -100
                           /\ item.task = "returned" =>
                                 /\ DOMAIN c = {"candidate", "spec", "profile", "score"}
                                 /\ c.spec = item.spec
                                 /\ c.profile = item.profile
                                 /\ c.score = _score_spec(item.spec))
    /\ [][(pc = "gather" /\ pc' # "gather") =>
             \A i \in DOMAIN gather.results : gather.results[i] # Pending]_vars

C22_Witness ==
    /\ pc = "phase2_plan"
    /\ Len(gather.results) >= 2
    /\ gather.order[1] = 2
    /\ gather.results[1].task = "raised"
    /\ gather.results[2].task = "returned"

----------------------------------------------------------------------------
\* C23: when at least one candidate succeeded, build_plan selects the
\* candidate of lowest ordinal among the successful candidates of greatest
\* score; a failed candidate is never selected, and the selection is
\* determined by the list of candidates
LastDecide == artifacts[Len(artifacts)]

C23_SelectsFirstOfBest ==
    pc = "phase2_plan" =>
        LET cs == LastDesign.candidates
            k == LastDecide.selected_candidate
        IN  /\ LastDecide.phase = "decide"
            /\ k \in 1..Len(cs)
            /\ "spec" \in DOMAIN cs[k]
            /\ gather.results[k].task = "returned"
            /\ LastDecide.selected_score = cs[k].score
            /\ \A j \in 1..Len(cs) :
                  "spec" \in DOMAIN cs[j] =>
                      /\ cs[j].score <= cs[k].score
                      /\ j < k => cs[j].score < cs[k].score

C23_Witness ==
    /\ pc = "phase2_plan"
    /\ Len(LastDesign.candidates) >= 2
    /\ LastDecide.selected_candidate = 1
    /\ "spec" \in DOMAIN LastDesign.candidates[2]
    /\ LastDesign.candidates[2].score = LastDesign.candidates[1].score
    /\ LastDesign.candidates[2].spec # LastDesign.candidates[1].spec

----------------------------------------------------------------------------
\* C24: when every planner invocation of a Phase-2 round fails, build_plan
\* fails with the no-viable-plan error and produces a design artifact whose
\* candidate_count is the requested candidate_count, every candidate of it
\* marked with an error and score -1.0
C24_NoViablePlanLeavesDesign ==
    (cfg.phase2 /\ pc = "raised" /\ state # PyNone) =>
        /\ artifacts # <<>>
        /\ LET design == artifacts[Len(artifacts)]
           IN  /\ design.phase = "design"
               /\ design.candidate_count = cfg.candidate_count
               /\ \A i \in 1..Len(design.candidates) :
                     /\ "error" \in DOMAIN design.candidates[i]
                     /\ design.candidates[i].score = -100

----------------------------------------------------------------------------
\* C25: with Phase-2 enabled every successful planning round appends exactly
\* three records, discover, design, decide in this order, to the artifact
\* log before the job's create action starts, and the decide record names
\* the ordinal, score and profile of the candidate whose spec the run uses
C25_ThreeArtifactsPerRound ==
    /\ Len(artifacts) % 3 = 0
    /\ \A j \in DOMAIN artifacts :
          artifacts[j].phase = CASE j % 3 = 1 -> "discover"
                                 [] j % 3 = 2 -> "design"
                                 [] OTHER -> "decide"
    /\ pc = "create" =>
          /\ Len(artifacts) = 3 * (state.song_index + 1)
          /\ artifacts[Len(artifacts) - 2].index = state.song_index
          /\ LET chosen == LastDesign.candidates[LastDecide.selected_candidate]
             IN  /\ chosen.candidate = LastDecide.selected_candidate
                 /\ chosen.spec = state.spec
                 /\ chosen.profile = state.profile
                 /\ LastDecide.selected_profile = state.profile
                 /\ LastDecide.selected_score = chosen.score
                 /\ LastDecide.selected_title = state.spec.title

C25_Witness ==
    /\ pc = "create"
    /\ state.song_index = 1
    /\ Len(artifacts) = 6
    /\ LastDecide.selected_candidate = 2

----------------------------------------------------------------------------
\* C26: the template planner is deterministic: two invocations of generate
\* with the same intent and index return the same spec, in all fields, and
\* the same profile
C26_TemplateDeterministic ==
    (planner = "template" /\ ~cfg.phase2 /\ pc = "planned_event") =>
        \A plan \in Plans("template", cfg.music_type, state.song_index) :
            /\ plan.spec = state.spec
            /\ plan.profile = state.profile

----------------------------------------------------------------------------
\* C27: every change of (song_index, phase) that the run persists is
\* accompanied by an event of that job in the event log; here for the change
\* from create to wait: when the wait block is entered after the create
\* action of this run, the last event is one recorded for this change
EventsBeforeCreateEnds == {"planned", "captcha_pause", "captcha_resume", "create_failed"}

C27_TransitionsLogged ==
    (pc = "wait" /\ visited # <<>> /\ visited[Len(visited)] = <<state.song_index, "create">>) =>
        /\ events # <<>>
        /\ LastEvent.song_index = state.song_index
        /\ LastEvent.event \notin EventsBeforeCreateEnds

----------------------------------------------------------------------------
\* C28: the job loop checks a stop-requested signal at the top of every
\* iteration: once stop is requested the run exits at the next loop top and
\* starts no further job
C28_StopCheckedAtLoopTop ==
    [][(pc = "loop" /\ stop_requested) => pc' = "clear"]_vars

----------------------------------------------------------------------------
\* C29: exactly one row is added to the in-memory summary per job, either
\* with status OK or with the status of the phase that exhausted its retries
C29_OneRowPerJob ==
    \A i, j \in DOMAIN rows : rows[i][1] = rows[j][1] => i = j

----------------------------------------------------------------------------
\* C30: every spec a planner produces has weirdness and style_influence in
\* 0..100, and the model-backed planner leaves a value of the external
\* model that already lies in 0..100 unchanged
C30_TuningClampedInRange ==
    (pc = "planned_event" /\ ~cfg.phase2) =>
        /\ state.spec.weirdness \in 0..100
        /\ state.spec.style_influence \in 0..100
        /\ planner = "dspy" =>
              \E result \in DspyResults :
                  /\ state.spec = DspySpecPlannerGenerate(cfg.music_type, state.song_index, result).spec
                  /\ result.weirdness \in 0..100 => state.spec.weirdness = result.weirdness
                  /\ result.style_influence \in 0..100 =>
                        state.spec.style_influence = result.style_influence

----------------------------------------------------------------------------
\* C31: a master_export attempt that a blocking condition made fail leads to
\* the pause/resume wait and to another master_export attempt for the same
\* job: the job is not recorded as FAILED_MASTER_EXPORT
MasterBlocked == \E k \in DOMAIN results : HasCaptcha(results[k].message)

----------------------------------------------------------------------------
\* C32: the master_export block of job i is entered only after the wait
\* block of job i, and the wait block only after the create step of job i
\* has succeeded, in this run or as the loaded checkpoint records it; a job
\* whose create step failed without a pause never reaches wait or
\* master_export
CreateGivenUp(i) ==
    \E e \in DOMAIN events :
        /\ events[e].event = "create_failed"
        /\ events[e].song_index = i
        /\ ~(HasCaptcha(events[e].message) /\ cfg.pause_on_captcha)

LoadedAt(i, phase) ==
    /\ loadedFrom # PyNone
    /\ loadedFrom.song_index = i
    /\ loadedFrom.phase = phase

C32_PhaseOrder ==
    /\ \A k \in DOMAIN visited :
          LET i == visited[k][1]
              phase == visited[k][2]
          IN  /\ phase = "master_export" =>
                    IF k = 1 THEN LoadedAt(i, "master_export") ELSE visited[k - 1] = <<i, "wait">>
              /\ phase = "wait" =>
                    IF k = 1 THEN LoadedAt(i, "wait") ELSE visited[k - 1] = <<i, "create">>
              /\ phase \in {"wait", "master_export"} => ~CreateGivenUp(i)
    /\ (pc = "wait" /\ visited # <<>>) => msg = CreateOkMsg

C32_Witness ==
    /\ pc = "master_call"
    /\ CreateGivenUp(0)
    /\ Len(visited) = 5
    /\ visited[5] = <<1, "master_export">>

----------------------------------------------------------------------------
----------------------------------------------------------------------------
\* C34: a run with --resume that loads any record _load_checkpoint accepts
\* for a job below count, whatever its phase, and whose executor always
\* succeeds, eventually terminates with song_index >= count
C34_AcceptedRecordTerminates ==
    <>(pc = "exited" /\ state.song_index >= cfg.count)

----------------------------------------------------------------------------
\* C35: across crashes and resumes of one run the event log holds at most
\* one song_completed event per song_index
C35_OneSongCompletedPerJob ==
    \A i, j \in DOMAIN events :
        (/\ events[i].event = "song_completed"
         /\ events[j].event = "song_completed"
         /\ events[i].song_index = events[j].song_index) => i = j

----------------------------------------------------------------------------
\* C36: a run started without --resume ignores the checkpoint file it finds
\* and overwrites it with the initial state (song_index 0, phase plan, spec
\* null) before any planning or external action
C36_FreshRunOverwrites ==
    ~resume =>
        /\ pc \in {"start", "load"} => (state = PyNone /\ visited = <<>> /\ events = <<>>)
        /\ (pc = "save" /\ visited = <<>>) =>
              (state = FreshState /\ ckpt = Partial /\ ret = "loop")
        /\ (pc = "loop" /\ visited = <<>>) =>
              (state = FreshState /\ ckpt = _save_checkpoint(cfg, FreshState))
        /\ visited # <<>> => visited[1] = <<0, "plan">>

C36_Witness ==
    /\ ~resume
    /\ loadedFrom # PyNone
    /\ loadedFrom.kind = "usable"
    /\ pc = "create"
    /\ visited = << <<0, "plan">> >>

----------------------------------------------------------------------------
\* C37: when the create step ends in a blocking-condition failure and
\* pause_on_captcha is false the run stops without advancing: the checkpoint
\* keeps phase create with the spec of the job and last_error; a later run
\* with --resume enters the create step of that job with that spec, without
\* planning again
C37_CaptchaStopIsResumable ==
    /\ (pc = "exited" /\ ~cfg.pause_on_captcha /\ HasCaptcha(msg)) =>
          /\ state.phase = "create"
          /\ visited[Len(visited)] = <<state.song_index, "create">>
          /\ state.spec # PyNone
          /\ state.last_error = PyStr(msg)
          /\ ckpt = _save_checkpoint(cfg, state)
    /\ (resume /\ crashState # PyNone /\ crashState.phase = "create") =>
          /\ visited # <<>> => visited[1] = <<crashState.song_index, "create">>
          /\ (pc = "create_call" /\ Len(visited) = 1) =>
                /\ state = _load_checkpoint(cfg, ckpt)
                /\ state.spec # PyNone
                /\ state.song_index = crashState.song_index

C37_Witness ==
    /\ resume
    /\ crashState = [song_index |-> 1, phase |-> "create"]
    /\ pc = "create_call"
    /\ visited = << <<1, "create">> >>
    /\ HasCaptcha(state.last_error.v)
    /\ LastEvent.event = "create_failed"

----------------------------------------------------------------------------------------------------------------------------------------------------
\* C38: AutoCreateAgent.run with max_songs = M > 0 never counts more than M
\* successes, and once the counter has reached M it makes no further create
\* attempt, whatever the executor answers and whatever cycle_specs and
\* forever are
C38_StopsAtMaxSongs ==
    /\ [](auto.config.max_songs > 0 => auto.successes <= auto.config.max_songs)
    /\ [][(auto.config.max_songs > 0 /\ auto.successes >= auto.config.max_songs) =>
             (auto'.attempts = auto.attempts /\ auto'.pc \in {"after_loop", "top", "returned"})]_vars

C38_Witness ==
    /\ auto.pc = "returned"
    /\ auto.config.max_songs = 2
    /\ auto.config.nspecs = 1
    /\ auto.config.forever
    /\ auto.successes = 2
    /\ auto.failures = 1

----------------------------------------------------------------------------
\* C39: AutoCreateAgent.run makes at most retries + 1 create attempts per
\* visit of a spec, an attempt that ended in a pause being one of them, and
\* counts the spec as failed only after exactly retries + 1 failed attempts
AttemptsOnly(entries) == SelectSeq(entries, LAMBDA e : e.event = "create_attempt")

C39_AttemptsPerVisit ==
    /\ [](LET tries == AttemptsOnly(auto.log)
          IN  /\ auto.attempt <= auto.config.retries + 1
              /\ \A k \in DOMAIN tries :
                    /\ tries[k].attempt \in 1..(auto.config.retries + 1)
                    /\ tries[k].attempt > 1 =>
                          /\ tries[k - 1].spec_index = tries[k].spec_index
                          /\ tries[k - 1].attempt = tries[k].attempt - 1
                          /\ ~tries[k - 1].success)
    /\ [][auto'.failures # auto.failures =>
             LET tries == AttemptsOnly(auto.log)
                 n == auto.config.retries + 1
             IN  /\ auto'.failures = auto.failures + 1
                 /\ Len(tries) >= n
                 /\ \A a \in 1..n :
                       LET e == tries[Len(tries) - n + a]
                       IN  /\ e.spec_index = auto.spec_idx
                           /\ e.attempt = a
                           /\ ~e.success]_vars

C39_Witness ==
    /\ auto.failures = 1
    /\ auto.config.retries = 1
    /\ auto.attempts = 2
    /\ Pauses(auto.log) = 1
    /\ auto.log[Len(auto.log)].event = "captcha_resume"

----------------------------------------------------------------------------
\* C40: with forever = false, max_songs = 0 and max_hours = 0,
\* AutoCreateAgent.run visits each input spec exactly once, in input order,
\* and then stops, even when cycle_specs is true
SinglePass ==
    ~auto.config.forever /\ auto.config.max_songs = 0 /\ auto.config.max_hours = 0

Visits(entries) ==
    SelectSeq(entries, LAMBDA e : e.event = "create_attempt" /\ e.attempt = 1)

====
